---- MODULE Spec2Model ----
(***************************************************************************)
(* prism-relay: the concurrent multi-backend query engine.                 *)
(*                                                                         *)
(* One tool call (prism_query, prism_compare, prism_bundle_query,          *)
(* prism_bundle_compare) is followed from the handler's entry to its       *)
(* return value.  Every adapter invocation started by queryLLM is an entry *)
(* of ops; the events of the Node event loop (process 'close' / 'error',   *)
(* timer callbacks, fetch settlements) are the actions.  The continuation  *)
(* of the handler after its await runs in the same turn as the event that  *)
(* settles the awaited promise, so it is part of that event's action.      *)
(*                                                                         *)
(* The bundler (bundleFiles) is followed file by file over a project tree  *)
(* in a specification of its own, SpecBundle: paths, patterns and the      *)
(* .gitignore text are sequences of characters, and the matchers are      *)
(* computed on them as the code computes them.                             *)
(***************************************************************************)
EXTENDS Integers, Sequences, FiniteSets, TLC

VARIABLES
    PROVIDERS,   \* provider id -> [mode, apiKey, defaultModel], read-only
    LOG_CONVERSATIONS,  \* the log_conversations setting, read-only
    phase,       \* "idle" | "waiting" | "done": position of the handler
    tool,        \* name of the tool being served
    providers,   \* the provider list as passed by the caller
    unique,      \* the de-duplicated list the handler dispatches
    ops,         \* one record per queryLLM invocation, aligned with unique
    ret,         \* what the handler returned (or threw)
    logFiles,    \* the files written to LOG_DIR
    fs,          \* the project directory: [gitignore, root, dirs, tree]
    bf,          \* the local variables of one bundleFiles call
    boot,        \* module load: process.env, settings.json, values of cfg()
    calls,       \* two tool calls in flight at once: call -> handler locals
    child        \* one CLI adapter call: the promise, its timer, the process

queryVars ==
    <<PROVIDERS, LOG_CONVERSATIONS, phase, tool, providers, unique, ops, ret, logFiles>>

bundleVars == <<fs, bf>>

cfgVars == <<boot>>

twoVars == <<calls>>

cliVars == <<child>>

vars == <<queryVars, bundleVars, cfgVars, twoVars, cliVars>>

-----------------------------------------------------------------------------
\* Bounds and program constants

\* longest stdout / response text the environment delivers
MaxText == 1

\* z.array(providerEnum).min(2).max(3)
MinProviders == 2
MaxProviders == 3

ProviderIds == {"anthropic", "gemini", "deepseek", "lmstudio"}

\* " " stands for any white space, "a" for any other character
Chars == {" ", "a"}

Texts == UNION {[1..n -> Chars] : n \in 0..MaxText}

\* values of the mode setting: the two documented ones, and any other string
Modes == {"cli", "api", "bogus"}
Keys == {"", "k"}

\* the settings cfg() can resolve for one provider; the api key of a provider
\* outside api mode is never read by queryLLM and is left at its fallback
ConfigsOf(p) ==
    CASE p \in {"anthropic", "gemini"} ->
            {c \in [mode : Modes, apiKey : Keys, defaultModel : {"m"}] :
                c.mode # "api" => c.apiKey = ""}
      [] p = "deepseek" ->
            [mode : {"none"}, apiKey : Keys, defaultModel : {"m"}]
      [] OTHER ->
            [mode : {"none"}, apiKey : {""}, defaultModel : {"", "m"}]

\* the settings logging can be switched off with: the hard-coded fallbacks
\* of cfg()
DefaultConfig(p) ==
    CASE p \in {"anthropic", "gemini"} ->
            [mode |-> "cli", apiKey |-> "", defaultModel |-> "m"]
      [] p = "deepseek" ->
            [mode |-> "none", apiKey |-> "", defaultModel |-> "m"]
      [] OTHER ->
            [mode |-> "none", apiKey |-> "", defaultModel |-> ""]

-----------------------------------------------------------------------------
\* Settings

\* JSON values as settings.json can hold them, with their JavaScript type
JsonString(v) == [type |-> "string", v |-> v]
JsonFalse == [type |-> "boolean", v |-> "false"]

\* the operand of || or if () is truthy; a missing key (<<>>) is undefined
Truthy(opt) ==
    /\ opt # <<>>
    /\ opt[1] \notin {JsonString(""), JsonFalse}

\* the settings read at module load: key, environment variable, fallback
ConfigKeys ==
    << [key |-> "log_conversations", envVar |-> "LOG_CONVERSATIONS", fallback |-> "true"],
       [key |-> "anthropic_mode", envVar |-> "ANTHROPIC_MODE", fallback |-> "cli"],
       [key |-> "anthropic_api_key", envVar |-> "ANTHROPIC_API_KEY", fallback |-> ""] >>

\* the function cfg(key, envVar, fallback) under process.env = env and
\* loadSettings() = settings; both map a name to <<>> (missing) or <<value>>
Cfg(env, settings, key, envVar, fallback) ==
    IF Truthy(env[envVar]) THEN env[envVar][1]
    ELSE IF Truthy(settings[key]) THEN settings[key][1]
    ELSE JsonString(fallback)

\* before the module is loaded
NoBoot == [env |-> <<>>, settings |-> <<>>, values |-> <<>>]

-----------------------------------------------------------------------------
\* Strings

RECURSIVE TrimStart(_)
TrimStart(s) ==
    IF s # <<>> /\ Head(s) = " " THEN TrimStart(Tail(s)) ELSE s

RECURSIVE TrimEnd(_)
TrimEnd(s) ==
    IF s # <<>> /\ s[Len(s)] = " " THEN TrimEnd(SubSeq(s, 1, Len(s) - 1)) ELSE s

\* String.prototype.trim
Trim(s) == TrimEnd(TrimStart(s))

-----------------------------------------------------------------------------
\* One queryLLM invocation

NoOp ==
    [provider |-> "", via |-> "", adapter |-> "none", model |-> "",
     pc |-> "start", timer |-> "none", conn |-> "none", proc |-> "none",
     ok |-> FALSE, late |-> FALSE, status |-> "pending",
     text |-> <<>>, error |-> "", sent |-> 0, lookups |-> 0, data |-> "none"]

\* new Promise(...) of queryAnthropicCLI / queryGeminiCLI up to its return:
\* the process is spawned and its timer armed
SpawnCLI(o, name) ==
    [o EXCEPT !.adapter = name, !.pc = "proc", !.proc = "running",
              !.timer = "armed", !.sent = @ + 1]

\* queryAnthropicAPI / queryGeminiAPI / queryOpenAICompat up to the first
\* await: the timer is armed and the request is on the wire
StartFetch(o, name) ==
    [o EXCEPT !.adapter = name, !.pc = "fetch", !.conn = "open",
              !.timer = "armed", !.sent = @ + 1]

\* late marks an invocation that is still awaiting its backend TIMEOUT_MS
\* after its adapter started; a settled invocation awaits nothing
Reject(o, msg) ==
    [o EXCEPT !.pc = "settled", !.status = "rejected", !.error = msg,
              !.late = FALSE]

Fulfil(o, t) ==
    [o EXCEPT !.pc = "settled", !.status = "fulfilled", !.text = t,
              !.late = FALSE]

\* queryLLM with the credential looked at only after the adapter was started
CheckKeyAfterSend(p, model) ==
    LET cfg == PROVIDERS[p]
        o == [NoOp EXCEPT !.provider = p,
                          !.model = IF model # "" THEN model ELSE cfg.defaultModel]
        begun == IF cfg.mode \in {"api", "none"}
                 THEN StartFetch(o, "OpenAICompat")
                 ELSE SpawnCLI(o, "AnthropicCLI")
    IN  IF p # "lmstudio" /\ cfg.mode # "cli" /\ cfg.apiKey = ""
        THEN Reject(begun, "API key not set")
        ELSE begun

\* queryLLM(provider, prompt, model) up to its first suspension
queryLLM(p, model) ==
    LET cfg == PROVIDERS[p]
        effectiveModel == IF model # "" THEN model ELSE cfg.defaultModel
        o == [NoOp EXCEPT !.provider = p, !.model = effectiveModel]
    IN  CASE p = "anthropic" ->
                IF cfg.mode = "api"
                THEN IF cfg.apiKey = ""
                     THEN Reject([o EXCEPT !.via = "API"], "API key not set")
                     ELSE StartFetch([o EXCEPT !.via = "API"], "AnthropicAPI")
                ELSE SpawnCLI([o EXCEPT !.via = "CLI"], "AnthropicCLI")
          [] p = "gemini" ->
                IF cfg.mode = "api"
                THEN IF cfg.apiKey = ""
                     THEN Reject([o EXCEPT !.via = "API"], "API key not set")
                     ELSE StartFetch([o EXCEPT !.via = "API"], "GeminiAPI")
                ELSE SpawnCLI([o EXCEPT !.via = "CLI"], "GeminiCLI")
          [] p = "deepseek" ->
                IF cfg.apiKey = ""
                THEN Reject(o, "API key not set")
                ELSE StartFetch(o, "OpenAICompat")
          [] OTHER ->
                IF effectiveModel # ""
                THEN StartFetch(o, "OpenAICompat")
                ELSE [o EXCEPT !.pc = "discover", !.lookups = @ + 1]

-----------------------------------------------------------------------------
\* What the environment can deliver

\* "#" stands for one banner line ("Loaded cached credentials ...")
StdoutChars == Chars \cup {"#"}

Stdouts == UNION {[1..n -> StdoutChars] : n \in 0..MaxText}

ExitCodes == {0, 1}

\* an HTTP response body: lost in transit, not JSON, JSON without the
\* expected field, or JSON carrying content (and maybe reasoning_content)
Bodies ==
    [kind : {"lost", "garbage", "bare"}, content : {<<>>}, reasoning : {FALSE}]
    \cup [kind : {"json"}, content : Texts, reasoning : BOOLEAN]

-----------------------------------------------------------------------------
\* The adapters' event handlers

\* clearTimeout(timer)
ClearTimer(o) ==
    [o EXCEPT !.timer = IF @ = "armed" THEN "cleared" ELSE @]

\* a promise whose latest resolve / reject wins
SettleAgain(o, settledOp) == settledOp

\* resolve / reject of a promise that is already settled do nothing
SettleOnce(o, settledOp) ==
    IF o.status = "pending" THEN settledOp ELSE o

\* stdout.split("\n").filter(not a banner line).join("\n")
DropBanners(out) == SelectSeq(out, LAMBDA c : c # "#")

CleanStdout(o, out) ==
    IF o.adapter = "GeminiCLI" THEN Trim(DropBanners(out)) ELSE Trim(out)

\* proc.on("close", code => ...)
OnClose(o, code, out) ==
    LET c == [ClearTimer(o) EXCEPT !.proc = "exited"]
    IN  IF code # 0
        THEN SettleOnce(c, Reject(c, "exited with code"))
        ELSE SettleOnce(c, Fulfil(c, CleanStdout(c, out)))

\* an error handler that spawns the process again
RespawnOnError(o) == SpawnCLI(o, o.adapter)

\* proc.on("error", err => ...)
OnError(o) ==
    LET c == [ClearTimer(o) EXCEPT !.proc = "failed"]
    IN  SettleOnce(c, Reject(c, "Failed to spawn"))

\* the text an adapter extracts from a parsed response
ExtractText(o, body) ==
    CASE o.adapter = "AnthropicAPI" ->
            IF body.kind = "bare" THEN <<>> ELSE body.content
      [] o.adapter = "OpenAICompat" ->
            IF body.reasoning THEN <<"a", " ">> \o body.content
            ELSE body.content
      [] OTHER -> body.content

\* the adapter from `await resp.text()` / `await resp.json()` to its return
OnBody(o, body) ==
    LET c == [o EXCEPT !.conn = "closed", !.data = body.kind]
    IN  IF body.kind = "lost" THEN Reject(c, "fetch failed")
        ELSE IF ~o.ok THEN Reject(c, "HTTP status")
        ELSE IF body.kind = "garbage" THEN Reject(c, "invalid JSON")
        ELSE IF body.kind = "bare" /\ o.adapter # "AnthropicAPI"
             THEN Reject(c, "No response")
        ELSE Fulfil(c, Trim(ExtractText(o, body)))

\* what a timer's callback does to the operation it was armed for:
\* proc.kill("SIGTERM") and reject, or controller.abort() and the
\* AbortError caught by the adapter
OnAbort(o) ==
    CASE o.pc = "proc" ->
            SettleOnce(o, Reject([o EXCEPT !.proc = "killed"], "timed out"))
      [] o.pc \in {"fetch", "body"} ->
            Reject([o EXCEPT !.conn = "aborted"], "timed out")
      [] OTHER -> o

\* the operations reachable from the closure of invocation i's timer
TimerVictimsAll(i) == DOMAIN ops

TimerVictims(i) == {i}

-----------------------------------------------------------------------------
\* One CLI adapter call with what its closure holds: the stdout and stderr
\* buffers, the timer, the process and the promise.  events lists the
\* callbacks that ran, in order.

NoError == [message |-> "", code |-> "", stderr |-> <<>>]

NoChild ==
    [adapter |-> "none", proc |-> "none", timer |-> "none",
     stdout |-> <<>>, stderr |-> <<>>,
     status |-> "pending", text |-> <<>>, error |-> NoError, events |-> <<>>]

\* new Promise(...) of queryAnthropicCLI / queryGeminiCLI up to its return
SpawnChild(name) ==
    [NoChild EXCEPT !.adapter = name, !.proc = "running", !.timer = "armed"]

\* what `close` reports: an exit code, or null when a signal ended the process
CloseCodes == {"0", "1", "null"}

\* resolve(value)
resolve(c, value) ==
    SettleOnce(c, [c EXCEPT !.status = "fulfilled", !.text = value])

\* reject(new Error(...))
reject(c, err) ==
    SettleOnce(c, [c EXCEPT !.status = "rejected", !.error = err])

\* proc.on("close", (code) => ...)
ChildOnClose(c, code) ==
    LET d == [ClearTimer(c) EXCEPT !.proc = "closed",
                                   !.events = Append(@, <<"close", code>>)]
    IN  IF code # "0"
        THEN reject(d, [message |-> "exited with code", code |-> code,
                        stderr |-> c.stderr])
        ELSE resolve(d, CleanStdout(c, c.stdout))

\* proc.on("error", (err) => ...)
ChildOnError(c) ==
    LET d == [ClearTimer(c) EXCEPT !.proc = "failed",
                                   !.events = Append(@, <<"error", "">>)]
    IN  reject(d, [NoError EXCEPT !.message = "Failed to spawn"])

\* the callback of setTimeout: proc.kill("SIGTERM") and reject
ChildOnTimeout(c) ==
    LET d == [c EXCEPT !.timer = "fired",
                       !.proc = IF @ = "running" THEN "killed" ELSE @,
                       !.events = Append(@, <<"timer", "">>)]
    IN  reject(d, [NoError EXCEPT !.message = "timed out"])

-----------------------------------------------------------------------------
\* Code bundling: strings are sequences of one-character strings

StartsWith(s, pre) ==
    /\ Len(pre) <= Len(s)
    /\ SubSeq(s, 1, Len(pre)) = pre

EndsWith(s, suf) ==
    /\ Len(suf) <= Len(s)
    /\ SubSeq(s, Len(s) - Len(suf) + 1, Len(s)) = suf

Includes(s, sub) ==
    \E k \in 0..(Len(s) - Len(sub)) : SubSeq(s, k + 1, k + Len(sub)) = sub

\* String.prototype.lastIndexOf for one character, 0 when absent
LastIndexOf(s, c) ==
    IF \E k \in DOMAIN s : s[k] = c
    THEN CHOOSE k \in DOMAIN s : s[k] = c /\ \A j \in (k + 1)..Len(s) : s[j] # c
    ELSE 0

\* String.prototype.split for a one-character separator
RECURSIVE Split(_, _)
Split(s, c) ==
    IF \E k \in DOMAIN s : s[k] = c
    THEN LET k == LastIndexOf(s, c)
         IN  Append(Split(SubSeq(s, 1, k - 1), c), SubSeq(s, k + 1, Len(s)))
    ELSE <<s>>

\* relPath.replace(/\\/g, "/")
Normalize(p) == [k \in DOMAIN p |-> IF p[k] = "\\" THEN "/" ELSE p[k]]

\* norm.split("/").pop()
Basename(norm) == LET parts == Split(norm, "/") IN parts[Len(parts)]

\* pattern.replace(/\/?\*?$/, ""): a trailing "/", "*" or "/*" is dropped
DirOf(pattern) ==
    LET n == Len(pattern)
        noStar == IF n > 0 /\ pattern[n] = "*" THEN SubSeq(pattern, 1, n - 1) ELSE pattern
        m == Len(noStar)
    IN  IF m > 0 /\ noStar[m] = "/" THEN SubSeq(noStar, 1, m - 1) ELSE noStar

\* a matcher that looks for the pattern anywhere in the path
matchesAnywhere(filePath, pattern) ==
    Includes(Normalize(filePath), SelectSeq(pattern, LAMBDA ch : ch # "*"))

\* the simple glob matcher of ALWAYS_EXCLUDE, FALLBACK_EXCLUDES, user
\* excludes and the include filter
matchesPattern(filePath, pattern) ==
    LET norm == Normalize(filePath)
    IN  IF StartsWith(pattern, <<"*", ".">>)
        THEN EndsWith(norm, Tail(pattern))
        ELSE IF EndsWith(pattern, <<"/">>) \/ EndsWith(pattern, <<"/", "*">>)
        THEN LET dir == DirOf(pattern)
             IN  \/ StartsWith(norm, dir \o <<"/">>)
                 \/ Includes(norm, <<"/">> \o dir \o <<"/">>)
        ELSE Basename(norm) = pattern

\* entries of ALWAYS_EXCLUDE: ".git/", "*.key", "*.png", ".DS_Store"
ALWAYS_EXCLUDE ==
    << <<".", "g", "i", "t", "/">>,
       <<"*", ".", "k", "e", "y">>,
       <<"*", ".", "p", "n", "g">>,
       <<".", "D", "S", "_", "S", "t", "o", "r", "e">> >>

\* entries of FALLBACK_EXCLUDES: "lib/", "*.log", ".env.local", ".env.*.local"
FALLBACK_EXCLUDES ==
    << <<"l", "i", "b", "/">>,
       <<"*", ".", "l", "o", "g">>,
       <<".", "e", "n", "v", ".", "l", "o", "c", "a", "l">>,
       <<".", "e", "n", "v", ".", "*", ".", "l", "o", "c", "a", "l">> >>

\* entries of SECRET_FILE_EXTENSIONS: ".pem", ".key"
SECRET_FILE_EXTENSIONS ==
    { <<".", "p", "e", "m">>, <<".", "k", "e", "y">> }

\* entries of SECRET_FILE_NAMES: ".netrc", "id_rsa"
SECRET_FILE_NAMES ==
    { <<".", "n", "e", "t", "r", "c">>, <<"i", "d", "_", "r", "s", "a">> }

\* entries of SECRET_DIR_PREFIXES: ".ssh/", ".aws/"
SECRET_DIR_PREFIXES ==
    { <<".", "s", "s", "h", "/">>, <<".", "a", "w", "s", "/">> }

\* a checker that knows secret files by their extension alone
SecretByExtension(filePath) ==
    LET basename == Basename(Normalize(filePath))
        dotIdx == LastIndexOf(basename, ".")
    IN  dotIdx # 0 /\ SubSeq(basename, dotIdx, Len(basename)) \in SECRET_FILE_EXTENSIONS

isSecretFile(filePath) ==
    LET norm == Normalize(filePath)
        basename == Basename(norm)
        dotIdx == LastIndexOf(basename, ".")
    IN  \/ basename = <<".", "e", "n", "v">>
        \/ StartsWith(basename, <<".", "e", "n", "v", ".">>)
        \/ basename \in SECRET_FILE_NAMES
        \/ /\ dotIdx # 0
           /\ SubSeq(basename, dotIdx, Len(basename)) \in SECRET_FILE_EXTENSIONS
        \/ \E dir \in SECRET_DIR_PREFIXES :
              StartsWith(norm, dir) \/ Includes(norm, <<"/">> \o dir)

\* s.replace(/pat/g, by) on a sequence of regex tokens: leftmost matches,
\* left to right, without overlap
RECURSIVE ReplaceAll(_, _, _)
ReplaceAll(s, pat, by) ==
    IF s = <<>> THEN <<>>
    ELSE IF StartsWith(s, pat)
         THEN by \o ReplaceAll(SubSeq(s, Len(pat) + 1, Len(s)), pat, by)
         ELSE <<Head(s)>> \o ReplaceAll(Tail(s), pat, by)

\* Regex tokens: a one-character string is that literal character; "[^/]" is
\* one character other than "/", "[^/]*" any run of them, "any" one
\* character, "any+" one or more characters.
\*
\* The five replacements run one after the other over the same string, so a
\* later one also rewrites the text an earlier one inserted:
\*    "**/"  ->  (?:.+/)?   ->  ([^/]:.+/)[^/]         (the "?" pass)
\*    "/**"  ->  (?:/.*)?   ->  (?:/.[^/]*)?  ->  ([^/]:/.[^/]*)[^/]
\*    "**"   ->  .*         ->  .[^/]*
\*    "*"    ->  [^/]*
\*    "?"    ->  [^/]
DoubleStarSlash == <<"[^/]", ":", "any+", "/", "[^/]">>
SlashDoubleStar == <<"[^/]", ":", "/", "any", "[^/]*", "[^/]">>
DoubleStar == <<"any", "[^/]*">>
Star == <<"[^/]*">>
QuestionMark == <<"[^/]">>

\* the chain of replace() calls that turns a glob into a regex body
GlobToRegex(line) ==
    LET r1 == ReplaceAll(line, <<"*", "*", "/">>, DoubleStarSlash)
        r2 == ReplaceAll(r1, <<"/", "*", "*">>, SlashDoubleStar)
        r3 == ReplaceAll(r2, <<"*", "*">>, DoubleStar)
        r4 == ReplaceAll(r3, <<"*">>, Star)
    IN  ReplaceAll(r4, <<"?">>, QuestionMark)

\* a parser that compiles a negation line like any other line
CompileNegation(rawLine) ==
    LET line == Trim(rawLine)
        dirOnly == EndsWith(line, <<"/">>)
        l1 == IF dirOnly THEN SubSeq(line, 1, Len(line) - 1) ELSE line
        lead == StartsWith(l1, <<"/">>)
        l2 == IF lead THEN Tail(l1) ELSE l1
        anchored == lead \/ (Includes(l2, <<"/">>) /\ ~StartsWith(l2, <<"*", "*", "/">>))
    IN  IF line = <<>> \/ Head(line) = "#"
        THEN <<>>
        ELSE << [anchored |-> anchored, dirOnly |-> dirOnly, re |-> GlobToRegex(l2)] >>

\* one line of .gitignore: no matcher (<<>>), or one compiled matcher
CompileLine(rawLine) ==
    LET line == Trim(rawLine)
        dirOnly == EndsWith(line, <<"/">>)
        l1 == IF dirOnly THEN SubSeq(line, 1, Len(line) - 1) ELSE line
        lead == StartsWith(l1, <<"/">>)
        l2 == IF lead THEN Tail(l1) ELSE l1
        anchored == lead \/ (Includes(l2, <<"/">>) /\ ~StartsWith(l2, <<"*", "*", "/">>))
    IN  IF line = <<>> \/ Head(line) = "#" \/ Head(line) = "!"
        THEN <<>>
        ELSE << [anchored |-> anchored, dirOnly |-> dirOnly, re |-> GlobToRegex(l2)] >>

RECURSIVE CompileLines(_)
CompileLines(lines) ==
    IF lines = <<>> THEN <<>>
    ELSE CompileLine(Head(lines)) \o CompileLines(Tail(lines))

\* the value of gitignoreMatchers that stands for null
NoMatchers == <<>>

\* parseGitignoreFile(rootPath): the compiled matchers, or null when the file
\* cannot be read or yields no matcher
parseGitignoreFile(file) ==
    IF ~file.exists THEN NoMatchers
    ELSE CompileLines(Split(file.raw, "\n"))

\* the regex body re matches the whole of s
RECURSIVE Match(_, _)
Match(re, s) ==
    IF re = <<>> THEN s = <<>>
    ELSE LET t == Head(re)
             rest == Tail(re)
             After(n) == SubSeq(s, n + 1, Len(s))
         IN  CASE t = "[^/]*" ->
                    \E n \in 0..Len(s) :
                        /\ \A k \in 1..n : s[k] # "/"
                        /\ Match(rest, After(n))
               [] t = "any+" ->
                    \E n \in 1..Len(s) : Match(rest, After(n))
               [] t = "any" ->
                    s # <<>> /\ Match(rest, After(1))
               [] t = "[^/]" ->
                    s # <<>> /\ s[1] # "/" /\ Match(rest, After(1))
               [] OTHER ->
                    s # <<>> /\ s[1] = t /\ Match(rest, After(1))

\* re.test(normalized) for ("^" | "(?:^|/)") re ("(?:/|$)" | "(?:$|/)")
RegexTest(m, path) ==
    \E b \in 1..(Len(path) + 1), e \in 0..Len(path) :
        /\ b <= e + 1
        /\ IF m.anchored THEN b = 1 ELSE (b = 1 \/ path[b - 1] = "/")
        /\ Match(m.re, SubSeq(path, b, e))
        /\ IF m.dirOnly
           THEN (e < Len(path) /\ path[e + 1] = "/") \/ e = Len(path)
           ELSE e = Len(path) \/ (e < Len(path) /\ path[e + 1] = "/")

\* UTF-16 code unit order of the characters that occur in paths
Alphabet ==
    <<".", "/", "_", "a", "b", "c", "d", "e", "g", "h", "i", "j", "k", "l", "n",
      "o", "r", "s", "v", "y">>

Code(c) == CHOOSE k \in DOMAIN Alphabet : Alphabet[k] = c

\* p < q in the order of Array.prototype.sort() without comparator
RECURSIVE Before(_, _)
Before(p, q) ==
    IF q = <<>> THEN FALSE
    ELSE IF p = <<>> THEN TRUE
    ELSE IF Head(p) = Head(q) THEN Before(Tail(p), Tail(q))
    ELSE Code(Head(p)) < Code(Head(q))

\* [...entries].sort()
RECURSIVE Sorted(_)
Sorted(entries) ==
    IF entries = {} THEN <<>>
    ELSE LET first == CHOOSE p \in entries : \A q \in entries \ {p} : Before(p, q)
         IN  <<first>> \o Sorted(entries \ {first})

\* the directory part of a relative path, <<>> for an entry of the root
Parent(relPath) ==
    LET k == LastIndexOf(relPath, "/")
    IN  IF k = 0 THEN <<>> ELSE SubSeq(relPath, 1, k - 1)

\* readdirSync(dir, { withFileTypes: true }): the relative paths of the
\* entries of dir
Entries(project, dir) ==
    {n \in DOMAIN project.tree \cup DOMAIN project.dirs : Parent(n) = dir}

\* readdirSync(dir) does not throw
Readable(project, dir) ==
    IF dir = <<>> THEN project.root = "dir" ELSE project.dirs[dir] # "noaccess"

\* an lstat that reports no entry as a symbolic link
NeverALink(project, relPath) == FALSE

\* lstatSync(fullPath).isSymbolicLink()
IsSymbolicLink(project, relPath) ==
    IF relPath \in DOMAIN project.dirs
    THEN project.dirs[relPath] = "symlink"
    ELSE project.tree[relPath].kind = "symlink"

\* entry.isDirectory()
IsDirectory(project, relPath) == relPath \in DOMAIN project.dirs

\* walk(dir, prefix): the paths pushed to results
RECURSIVE walk(_, _)
walk(project, dir) ==
    IF ~Readable(project, dir) THEN {}
    ELSE UNION { IF IsSymbolicLink(project, relPath) THEN {}
                 ELSE IF IsDirectory(project, relPath) THEN walk(project, relPath)
                 ELSE {relPath} : relPath \in Entries(project, dir) }

\* walkDir(rootPath): the relative paths of the regular files of the tree
walkDir(project) == walk(project, <<>>)

\* File text is a sequence of tokens: "K" a sensitive key name (API_KEY),
\* "=" and ":" the separators, " " and "\n" white space, "'" a quote, "x"
\* one ordinary character, "v" eight ordinary characters, "big" 1090
\* ordinary characters, "sk" a value of the form sk-<20 letters or digits>,
\* and the two replacement texts.  In the texts explored, "sk" stands
\* between separators, white space or the ends of the text.
TokenLength(t) ==
    CASE t = "K" -> 7
      [] t = "v" -> 8
      [] t = "big" -> 1090
      [] t = "sk" -> 23
      [] t = "[REDACTED]" -> 10
      [] t = "[REDACTED:API_KEY]" -> 18
      [] OTHER -> 1

\* content.length
RECURSIVE TextLength(_)
TextLength(text) ==
    IF text = <<>> THEN 0 ELSE TokenLength(Head(text)) + TextLength(Tail(text))

\* a file of one ordinary character
ShortText == [kind |-> "text", text |-> <<"x">>]

\* \s
IsSpace(t) == t \in {" ", "\n"}

\* [^\s"'\n]
IsValueChar(t) == ~IsSpace(t) /\ t # "'"

\* the loop over SECRET_VALUE_PATTERNS: result.replace(re, replace), and
\* count += before.match(re).length
ReplaceValues(text) ==
    [content |-> [k \in DOMAIN text |->
                    IF text[k] = "sk" THEN "[REDACTED:API_KEY]" ELSE text[k]],
     count |-> Cardinality({k \in DOMAIN text : text[k] = "sk"})]

\* the first index from i on whose token is not white space
RECURSIVE SkipSpace(_, _)
SkipSpace(text, i) ==
    IF i <= Len(text) /\ IsSpace(text[i]) THEN SkipSpace(text, i + 1) ELSE i

\* the last index of the run of value characters that starts at i (i - 1
\* when there is none)
RECURSIVE RunEnd(_, _)
RunEnd(text, i) ==
    IF i <= Len(text) /\ IsValueChar(text[i]) THEN RunEnd(text, i + 1) ELSE i - 1

\* SECRET_KV_RE matched at index i: <<>> when it does not match, or
\* <<first index of the value, last index of the value>>
MatchKV(text, i) ==
    IF text[i] # "K" THEN <<>>
    ELSE LET s == SkipSpace(text, i + 1)
         IN  IF s > Len(text) \/ text[s] \notin {"=", ":"} THEN <<>>
             ELSE LET q == SkipSpace(text, s + 1)
                      v == IF q <= Len(text) /\ text[q] = "'" THEN q + 1 ELSE q
                      e == RunEnd(text, v)
                  IN  IF TextLength(SubSeq(text, v, e)) >= 8 THEN <<v, e>> ELSE <<>>

\* result.replace(SECRET_KV_RE, (match, prefix, value) => ...) from index i
RECURSIVE ReplaceKV(_, _)
ReplaceKV(text, i) ==
    IF i > Len(text) THEN [content |-> <<>>, count |-> 0]
    ELSE LET m == MatchKV(text, i)
         IN  IF m = <<>>
             THEN LET rest == ReplaceKV(text, i + 1)
                  IN  [content |-> <<text[i]>> \o rest.content, count |-> rest.count]
             ELSE LET rest == ReplaceKV(text, m[2] + 1)
                  IN  [content |-> SubSeq(text, i, m[1] - 1) \o <<"[REDACTED]">>
                                        \o rest.content,
                       count |-> rest.count + 1]

\* redactSecrets(raw): the content after both redactions, and their number
redactSecrets(raw) ==
    LET values == ReplaceValues(raw.text)
        kv == ReplaceKV(values.content, 1)
    IN  [content |-> [raw EXCEPT !.text = kv.content],
         redactedCount |-> values.count + kv.count]

\* `=== ${normalized} ===\n${content}\n\n`.length
SectionLength(normalized, content) ==
    4 + Len(normalized) + 5 + TextLength(content.text) + 2

\* (maxSizeKb || 500) * 1024; the optional argument is <<>> when absent
\* and <<n>> when given
MaxBytes(maxSizeKb) ==
    (IF maxSizeKb = <<>> \/ maxSizeKb[1] = 0 THEN 500 ELSE maxSizeKb[1]) * 1024

\* no project directory is being bundled
NoProject ==
    [gitignore |-> [exists |-> FALSE, raw |-> <<>>], root |-> "dir",
     dirs |-> <<>>, tree |-> <<>>]

\* the local variables of bundleFiles before the call
NoBundle ==
    [pc |-> "idle", includePatterns |-> <<>>, maxSizeKb |-> <<>>, maxBytes |-> 0,
     gitignoreMatchers |-> NoMatchers, hasGitignore |-> FALSE,
     simpleExcludes |-> <<>>, sorted |-> <<>>, next |-> 1,
     files |-> <<>>, blockedSecrets |-> <<>>, bundle |-> <<>>,
     totalSize |-> 0, truncatedCount |-> 0, totalRedacted |-> 0,
     opened |-> {}, header |-> "", securityWarning |-> <<>>, fileCount |-> 0]

\* the exclusion list with the fallback entries pushed unconditionally
ExcludesWithFallback(hasGitignore, excludePatterns) ==
    ALWAYS_EXCLUDE \o FALLBACK_EXCLUDES \o excludePatterns

\* simpleExcludes: ALWAYS_EXCLUDE, FALLBACK_EXCLUDES when no .gitignore was
\* compiled, then the caller's extra patterns
SimpleExcludes(hasGitignore, excludePatterns) ==
    ALWAYS_EXCLUDE
        \o (IF ~hasGitignore THEN FALLBACK_EXCLUDES ELSE <<>>)
        \o excludePatterns

\* filters without the include filter
SkippedByExclusion(b, normalized) ==
    \/ \E k \in DOMAIN b.simpleExcludes :
            matchesPattern(normalized, b.simpleExcludes[k])
    \/ /\ b.gitignoreMatchers # NoMatchers
       /\ \E k \in DOMAIN b.gitignoreMatchers :
            RegexTest(b.gitignoreMatchers[k], normalized)

\* filters in which a match of the include filter overrides the exclusions
SkippedUnlessIncluded(b, normalized) ==
    IF Len(b.includePatterns) > 0
    THEN ~\E k \in DOMAIN b.includePatterns :
            matchesPattern(normalized, b.includePatterns[k])
    ELSE \E k \in DOMAIN b.simpleExcludes :
            matchesPattern(normalized, b.simpleExcludes[k])

\* the filters of the loop body that `continue` before the secret check:
\* include filter, simple-pattern excludes, .gitignore excludes
Skipped(b, normalized) ==
    \/ /\ Len(b.includePatterns) > 0
       /\ ~\E k \in DOMAIN b.includePatterns :
                matchesPattern(normalized, b.includePatterns[k])
    \/ \E k \in DOMAIN b.simpleExcludes :
            matchesPattern(normalized, b.simpleExcludes[k])
    \/ /\ b.gitignoreMatchers # NoMatchers
       /\ \E k \in DOMAIN b.gitignoreMatchers :
            RegexTest(b.gitignoreMatchers[k], normalized)

\* `if (isSecretFile(normalized))`
SecretGate(normalized) == isSecretFile(normalized)

\* a secret branch that records the path and bundles it all the same
BlockAndInclude(b, normalized) ==
    [b EXCEPT !.blockedSecrets = Append(@, normalized),
              !.files = Append(@, normalized),
              !.bundle = Append(@, [path |-> normalized,
                                    content |-> ShortText])]

\* blockedSecrets.push(normalized); continue
Block(b, normalized) ==
    [b EXCEPT !.blockedSecrets = Append(@, normalized)]

\* totalSize + section.length > maxBytes
OverBudget(b, size) == b.totalSize + size > b.maxBytes

\* a file that does not fit and leaves no trace
DropSilently(b, red) == [b EXCEPT !.totalRedacted = @ + red.redactedCount]

\* the file does not fit: truncatedCount++; continue
Truncate(b, red) ==
    [b EXCEPT !.totalRedacted = @ + red.redactedCount,
              !.truncatedCount = @ + 1]

\* one iteration of `for (const relPath of sorted)`
LoopBody(b, tree) ==
    LET relPath == b.sorted[b.next]
        normalized == Normalize(relPath)
        raw == tree[relPath]
        red == redactSecrets(raw)
        size == SectionLength(normalized, red.content)
        n == [b EXCEPT !.next = @ + 1]
    IN  IF Skipped(b, normalized) THEN n
        ELSE IF SecretGate(normalized) THEN Block(n, normalized)
        ELSE LET r == [n EXCEPT !.opened = @ \cup {relPath}]
             IN  IF raw.kind # "text" THEN r
                 ELSE IF OverBudget(r, size)
                 THEN Truncate(r, red)
                 ELSE [r EXCEPT !.totalRedacted = @ + red.redactedCount,
                                !.bundle = Append(@, [path |-> normalized,
                                                      content |-> red.content]),
                                !.totalSize = @ + size,
                                !.files = Append(@, normalized)]

\* from the header to the return statement
Manifest(b) ==
    [b EXCEPT !.pc = "returned",
              !.fileCount = Len(b.files),
              !.header = IF b.hasGitignore
                         THEN ".gitignore + always-exclude"
                         ELSE "fallback best-practices + always-exclude",
              !.securityWarning =
                    (IF Len(b.blockedSecrets) > 0 THEN <<"BLOCKED">> ELSE <<>>)
                    \o (IF b.totalRedacted > 0 THEN <<"REDACTED">> ELSE <<>>)]

-----------------------------------------------------------------------------
\* The handlers

NoRet ==
    [kind |-> "none", isError |-> FALSE, successes |-> 0, total |-> 0,
     failures |-> 0, sections |-> <<>>, note |-> ""]

Section(p, o) ==
    IF o.status = "fulfilled"
    THEN [provider |-> o.provider, failed |-> FALSE, text |-> o.text, error |-> ""]
    ELSE [provider |-> p, failed |-> TRUE, text |-> <<>>, error |-> o.error]

\* [...new Set(providers)]: first occurrences, in order
RECURSIVE Dedup(_)
Dedup(s) ==
    IF s = <<>> THEN <<>>
    ELSE LET r == Dedup(SubSeq(s, 1, Len(s) - 1))
             last == s[Len(s)]
         IN  IF \E k \in 1..Len(r) : r[k] = last THEN r ELSE Append(r, last)

KeepDuplicates(s) == s

Unique(s) == Dedup(s)

\* Promise.all: rejects as soon as one input rejects
PromiseAll(o) ==
    IF \E i \in DOMAIN o : o[i].status = "rejected" THEN "throw"
    ELSE IF \A i \in DOMAIN o : o[i].status = "fulfilled" THEN "resume"
    ELSE "wait"

\* await Promise.allSettled(...): resumes when no input is pending, never throws
Join(o) ==
    IF \A i \in DOMAIN o : o[i].status # "pending" THEN "resume" ELSE "wait"

\* the settled array in the reverse of the input order
SettledReversed(o) == [i \in DOMAIN o |-> o[Len(o) + 1 - i]]

\* the array Promise.allSettled resolves to: input order
Settled(o) == [i \in DOMAIN o |-> o[i]]

\* successes counted as the entries that are not rejected with a timeout
CountNonTimeouts(settled) ==
    Cardinality({i \in DOMAIN settled :
                    ~(settled[i].status = "rejected" /\ settled[i].error = "timed out")})

\* settled.filter(s => s.status === "fulfilled").length
Successes(settled) ==
    Cardinality({i \in DOMAIN settled : settled[i].status = "fulfilled"})

\* isError: true as soon as one backend failed
AnyFailed(failures, total) == failures > 0

\* isError: failures === settled.length
IsError(failures, total) == failures = total

\* prism_compare / prism_bundle_compare from the settled array to the return
CompareReturn(uniq, o) ==
    LET settled == Settled(o)
        sections == [i \in 1..Len(uniq) |-> Section(uniq[i], settled[i])]
        successes == Successes(settled)
        failures == Len(settled) - successes
    IN  [kind |-> "result", isError |-> IsError(failures, Len(settled)),
         successes |-> successes, total |-> Len(settled),
         failures |-> failures, sections |-> sections, note |-> ""]

\* a rejection escaping the handler
QueryThrows(p, o) ==
    IF o.status = "fulfilled"
    THEN [NoRet EXCEPT !.kind = "result", !.sections = <<Section(p, o)>>]
    ELSE [NoRet EXCEPT !.kind = "exception", !.note = o.error]

\* prism_query / prism_bundle_query after `await queryLLM(...)`: the result,
\* or the catch block's error result
QueryReturn(p, o) ==
    [NoRet EXCEPT !.kind = "result", !.isError = (o.status # "fulfilled"),
                  !.sections = <<Section(p, o)>>]

\* the bundle handlers' early returns
BundleFailed(note) ==
    [NoRet EXCEPT !.kind = "result", !.isError = TRUE, !.note = note]

IsCompare(t) == t \in {"prism_compare", "prism_bundle_compare"}

IsBundle(t) == t \in {"prism_bundle_query", "prism_bundle_compare"}

\* fullPrompt as a sequence of parts: the bundle handlers prepend the bundle
\* text and a separator to the caller's prompt
FullPrompt(t) ==
    IF IsBundle(t) THEN <<"bundle", "---", "prompt">> ELSE <<"prompt">>

\* logConversation({tool, prompt, queries, durationMs}): the files in
\* LOG_DIR after the call
logConversation(t, prompt) ==
    IF ~LOG_CONVERSATIONS THEN logFiles
    ELSE logFiles \o << [file |-> "json", tool |-> t, prompt |-> prompt],
                        [file |-> "md", tool |-> t, prompt |-> prompt] >>

\* the handler's continuation in the turn that produced o
Resume(t, uniq, o) ==
    IF IsCompare(t)
    THEN CASE Join(o) = "wait" -> /\ phase' = "waiting"
                                  /\ ret' = NoRet
                                  /\ UNCHANGED logFiles
           [] Join(o) = "resume" -> /\ phase' = "done"
                                    /\ ret' = CompareReturn(uniq, o)
                                    /\ logFiles' = logConversation(t, FullPrompt(t))
           [] OTHER -> /\ phase' = "done"
                       /\ ret' = IF t = "prism_bundle_compare"
                                 THEN BundleFailed("Error")
                                 ELSE [NoRet EXCEPT !.kind = "exception"]
                       /\ UNCHANGED logFiles
    ELSE IF o[1].status = "pending"
         THEN /\ phase' = "waiting"
              /\ ret' = NoRet
              /\ UNCHANGED logFiles
         ELSE /\ phase' = "done"
              /\ ret' = QueryReturn(uniq[1], o[1])
              /\ logFiles' = IF t = "prism_bundle_query" /\ o[1].status # "fulfilled"
                             THEN logFiles
                             ELSE logConversation(t, FullPrompt(t))

\* the handler locals of one prism_compare call
NoCall ==
    [phase |-> "idle", providers |-> <<>>, unique |-> <<>>, ops |-> <<>>,
     ret |-> NoRet]

\* the server can have two tool calls in flight
NoCalls == [c \in 1..2 |-> NoCall]

\* the handler of one call after a turn that left its invocations as o
ResumeCall(call, o) ==
    IF call.phase # "done" /\ Join(o) = "resume"
    THEN [call EXCEPT !.ops = o, !.phase = "done",
                      !.ret = CompareReturn(call.unique, o)]
    ELSE [call EXCEPT !.ops = o,
                      !.phase = IF call.phase = "done" THEN "done" ELSE "waiting"]

-----------------------------------------------------------------------------
\* The state machine

ProviderLists ==
    UNION {[1..n -> ProviderIds] : n \in MinProviders..MaxProviders}

\* bundleFiles(...) as the handlers see it: it threw, it bundled no file,
\* or it returned a bundle
\* what bundleFiles gives a handler: an exception; a manifest without files,
\* with or without blocked secret files; a manifest with one file
BundleResults ==
    { [NoBundle EXCEPT !.pc = "threw"],
      [NoBundle EXCEPT !.pc = "returned"],
      [NoBundle EXCEPT !.pc = "returned",
                       !.blockedSecrets = << <<".", "e", "n", "v">> >>,
                       !.securityWarning = <<"BLOCKED">>],
      [NoBundle EXCEPT !.pc = "returned",
                       !.files = << <<"a", ".", "j", "s">> >>,
                       !.fileCount = 1,
                       !.bundle = << [path |-> <<"a", ".", "j", "s">>,
                                      content |-> ShortText] >>,
                       !.totalSize = SectionLength(<<"a", ".", "j", "s">>, ShortText)] }

\* a handler that takes every manifest as one with files
NeverEmpty(result) == FALSE

\* result.fileCount === 0
NoFilesMatched(result) == result.fileCount = 0

\* model argument of prism_query: absent, or an override
ModelArgs == {"", "x"}

\* providers that take no part in the call keep the built-in settings
Relevant(ps) ==
    \A p \in ProviderIds \ ps : PROVIDERS[p] = DefaultConfig(p)

Init ==
    /\ PROVIDERS \in {f \in [ProviderIds -> UNION {ConfigsOf(p) : p \in ProviderIds}] :
                        \A p \in ProviderIds : f[p] \in ConfigsOf(p)}
    /\ phase = "idle"
    /\ tool = "none"
    /\ providers = <<>>
    /\ unique = <<>>
    /\ ops = <<>>
    /\ ret = NoRet
    /\ logFiles = <<>>
    /\ LOG_CONVERSATIONS \in BOOLEAN
    /\ ~LOG_CONVERSATIONS => PROVIDERS = [p \in ProviderIds |-> DefaultConfig(p)]
    /\ fs = NoProject
    /\ bf = NoBundle
    /\ boot = NoBoot
    /\ calls = NoCalls
    /\ child = NoChild

\* unique.map((p) => queryLLM(p, fullPrompt, model)), then the handler's await
Dispatch(t, ps, uniq, model) ==
    LET started == [i \in 1..Len(uniq) |-> queryLLM(uniq[i], model)]
    IN  /\ tool' = t
        /\ providers' = ps
        /\ unique' = uniq
        /\ ops' = started
        /\ Resume(t, uniq, started)
        /\ UNCHANGED <<PROVIDERS, LOG_CONVERSATIONS, fs, cfgVars, twoVars, cliVars>>

\* a handler returning before any queryLLM call
ReturnEarly(t, ps, r) ==
    /\ tool' = t
    /\ providers' = ps
    /\ phase' = "done"
    /\ ret' = r
    /\ UNCHANGED <<PROVIDERS, LOG_CONVERSATIONS, unique, ops, logFiles, fs, cfgVars, twoVars, cliVars>>

prism_query ==
    \E p \in ProviderIds, model \in ModelArgs :
        /\ phase = "idle"
        /\ Relevant({p})
        /\ Dispatch("prism_query", <<p>>, <<p>>, model)
        /\ UNCHANGED bf

prism_compare ==
    \E ps \in ProviderLists :
        /\ phase = "idle"
        /\ Relevant({ps[i] : i \in DOMAIN ps})
        /\ Dispatch("prism_compare", ps, Unique(ps), "")
        /\ UNCHANGED bf

prism_bundle_query ==
    \E p \in ProviderIds, model \in ModelArgs, result \in BundleResults :
        /\ phase = "idle"
        /\ Relevant({p})
        /\ bf' = result
        /\ CASE result.pc = "threw" ->
                    ReturnEarly("prism_bundle_query", <<p>>, BundleFailed("Error"))
             [] result.pc # "threw" /\ NoFilesMatched(result) ->
                    ReturnEarly("prism_bundle_query", <<p>>, BundleFailed("No files matched"))
             [] OTHER -> Dispatch("prism_bundle_query", <<p>>, <<p>>, model)

prism_bundle_compare ==
    \E ps \in ProviderLists, result \in BundleResults :
        /\ phase = "idle"
        /\ Relevant({ps[i] : i \in DOMAIN ps})
        /\ bf' = result
        /\ CASE result.pc = "threw" ->
                    ReturnEarly("prism_bundle_compare", ps, BundleFailed("Error"))
             [] result.pc # "threw" /\ NoFilesMatched(result) ->
                    ReturnEarly("prism_bundle_compare", ps, BundleFailed("No files matched"))
             [] OTHER -> Dispatch("prism_bundle_compare", ps, Unique(ps), "")

\* one turn of the event loop that changes the invocations to new
Turn(new) ==
    /\ ops' = new
    /\ IF phase = "waiting"
       THEN Resume(tool, unique, new)
       ELSE UNCHANGED <<phase, ret, logFiles>>
    /\ UNCHANGED <<PROVIDERS, LOG_CONVERSATIONS, tool, providers, unique, bundleVars, cfgVars, twoVars, cliVars>>

\* the child process closes its stdio; its stdout is read only on exit code 0
\* of an invocation that is still pending, and is not varied otherwise;
\* banner lines are printed by the gemini CLI alone
ProcClose ==
    \E i \in DOMAIN ops, code \in ExitCodes, out \in Stdouts :
        /\ ops[i].proc \in {"running", "killed", "failed"}
        /\ ops[i].proc = "failed" => code # 0
        /\ (code # 0 \/ ops[i].status # "pending") => out = <<>>
        /\ ops[i].adapter # "GeminiCLI" => \A k \in DOMAIN out : out[k] # "#"
        /\ Turn([ops EXCEPT ![i] = OnClose(@, code, out)])

\* the child process could not be spawned
ProcError ==
    \E i \in DOMAIN ops :
        /\ ops[i].proc = "running"
        /\ Turn([ops EXCEPT ![i] = OnError(@)])

\* TIMEOUT_MS after the adapter armed it, the timer of invocation i runs
TimerExpires ==
    \E i \in DOMAIN ops :
        /\ ops[i].timer = "armed"
        /\ Turn([j \in DOMAIN ops |->
                   LET o == IF j = i
                            THEN [ops[j] EXCEPT !.timer = "fired"]
                            ELSE ops[j]
                   IN  IF j \in TimerVictims(i) THEN OnAbort(o) ELSE o])

\* TIMEOUT_MS after the adapter started, with its timer already cleared
DeadlinePasses ==
    \E i \in DOMAIN ops :
        /\ ops[i].pc = "body"
        /\ ops[i].timer = "cleared"
        /\ ~ops[i].late
        /\ Turn([ops EXCEPT ![i].late = TRUE])

\* fetch resolves: status line and headers are in; clearTimeout(timer)
FetchResponds ==
    \E i \in DOMAIN ops, ok \in BOOLEAN :
        /\ ops[i].pc = "fetch"
        /\ Turn([ops EXCEPT ![i] = [ClearTimer(@) EXCEPT !.pc = "body", !.ok = ok]])

\* fetch rejects with a network error; the catch block rethrows it
FetchFails ==
    \E i \in DOMAIN ops :
        /\ ops[i].pc = "fetch"
        /\ Turn([ops EXCEPT ![i] = Reject([ClearTimer(@) EXCEPT !.conn = "closed"],
                                          "fetch failed")])

\* resp.text() / resp.json() settles; an error body is read as plain text,
\* and reasoning_content is read by queryOpenAICompat alone
BodyArrives ==
    \E i \in DOMAIN ops, body \in Bodies :
        /\ ops[i].pc = "body"
        /\ ~ops[i].ok => body.kind \in {"lost", "garbage"}
        /\ body.reasoning => ops[i].adapter = "OpenAICompat"
        /\ Turn([ops EXCEPT ![i] = OnBody(@, body)])

\* a model lookup whose outcome is ignored: the chat request is sent anyway
DiscoveryIgnored ==
    \E i \in DOMAIN ops :
        /\ ops[i].pc = "discover"
        /\ Turn([ops EXCEPT ![i] = StartFetch(@, "OpenAICompat")])

\* resolveLMStudioModel returns the first loaded model, or throws
DiscoveryReturns ==
    \E i \in DOMAIN ops, loaded \in BOOLEAN :
        /\ ops[i].pc = "discover"
        /\ Turn([ops EXCEPT ![i] =
                   IF loaded
                   THEN StartFetch([@ EXCEPT !.model = "d"], "OpenAICompat")
                   ELSE Reject(@, "LM Studio not reachable")])

Next ==
    \/ prism_query
    \/ prism_compare
    \/ prism_bundle_query
    \/ prism_bundle_compare
    \/ ProcClose
    \/ ProcError
    \/ TimerExpires
    \/ DeadlinePasses
    \/ FetchResponds
    \/ FetchFails
    \/ BodyArrives
    \/ DiscoveryReturns

Spec == Init /\ [][Next]_vars

-----------------------------------------------------------------------------
\* The bundler's state machine

\* the most regular files a project tree holds
MaxFiles == 2

\* a.js, lib/a.js, a.log, s.key, .env, .env.local, id_rsa, .ssh/c
Paths ==
    { <<"a", ".", "j", "s">>,
      <<"l", "i", "b", "/", "a", ".", "j", "s">>,
      <<"l", "i", "b">>,
      <<"a", ".", "l", "o", "g">>,
      <<"s", ".", "k", "e", "y">>,
      <<".", "e", "n", "v">>,
      <<".", "e", "n", "v", ".", "l", "o", "c", "a", "l">>,
      <<"i", "d", "_", "r", "s", "a">>,
      <<".", "s", "s", "h", "/", "c">> }

\* more than one kilobyte, with one secret value on its last line
LongText == [kind |-> "text", text |-> <<"big", "\n", "sk">>]

\* texts with a sensitive key: "API_KEY=abcdefgh"; "API_KEY: abcdefgh";
\* "API_KEY='abcdefgh'"; "API_KEY=sk-..."; "API_KEY=x" (a short value); and
\* the two lines "API_KEY=" and "API_KEY=abcdefgh"
KeyTexts ==
    { [kind |-> "text", text |-> <<"K", "=", "v">>],
      [kind |-> "text", text |-> <<"K", ":", " ", "v">>],
      [kind |-> "text", text |-> <<"K", "=", "'", "v", "'">>],
      [kind |-> "text", text |-> <<"K", "=", "sk">>],
      [kind |-> "text", text |-> <<"K", "=", "x">>],
      [kind |-> "text", text |-> <<"K", "=", "\n", "K", "=", "v">>] }

\* what readFileSync(fullPath, "utf-8") finds: a text, mostly non-printable
\* characters, or a file it cannot read
Contents ==
    {ShortText, LongText} \cup KeyTexts
        \cup { [kind |-> "binary", text |-> <<>>],
               [kind |-> "unreadable", text |-> <<>>] }

\* what lstat finds at a path that is not a directory: a regular file with
\* its content, or a symbolic link
Nodes == Contents \cup { [kind |-> "symlink", text |-> <<>>] }

\* the directories that the paths ps lie in
DirsOf(ps) == {Parent(p) : p \in ps} \ {<<>>}

\* what is explored at path p: a.js is any text or a symbolic link, a.log
\* is any node but the texts with a key, every other path is a short text
NodesAt(p) ==
    CASE p = <<"a", ".", "j", "s">> ->
            {n \in Nodes : n.kind \in {"text", "symlink"}}
      [] p = <<"a", ".", "l", "o", "g">> -> Nodes \ KeyTexts
      [] OTHER -> {ShortText}

\* a name is a file or a directory, not both
Trees ==
    UNION {{t \in [ps -> Nodes] : \A p \in ps : t[p] \in NodesAt(p)} :
            ps \in {q \in SUBSET Paths :
                        Cardinality(q) <= MaxFiles /\ q \cap DirsOf(q) = {}}}

\* what a directory below the root is: a directory, one that cannot be
\* listed, or a symbolic link to a directory
DirKinds == {"dir", "noaccess", "symlink"}

\* the project's .gitignore: none; a comment only; ".env", "lib/" and a
\* negation; or the lines "**/a.js" and "lib/**"
GitignoreFiles ==
    { [exists |-> FALSE, raw |-> <<>>],
      [exists |-> TRUE, raw |-> <<"#", "c">>],
      [exists |-> TRUE,
       raw |-> <<".", "e", "n", "v", "\n", "l", "i", "b", "/", "\n",
                 "!", "l", "i", "b", "/", "a", ".", "j", "s">>],
      [exists |-> TRUE,
       raw |-> <<"*", "*", "/", "a", ".", "j", "s", "\n", "l", "i", "b", "/", "*", "*">>] }

\* the project directories: a root that can be listed, with its files and
\* directories, or a root that cannot (whose content nobody sees)
Projects ==
    UNION { UNION { { [gitignore |-> g, root |-> "dir", dirs |-> d, tree |-> t] :
                        d \in [DirsOf(DOMAIN t) -> DirKinds] } : t \in Trees }
                \cup { [gitignore |-> g, root |-> "noaccess", dirs |-> <<>>, tree |-> <<>>] }
            : g \in GitignoreFiles }

\* the include argument: absent, or ["*.js"]
IncludeArgs == { <<>>, << <<"*", ".", "j", "s">> >> }

\* the exclude argument: absent, or [".env", "*.log", "a*.js"]
ExcludeArgs ==
    { <<>>,
      << <<".", "e", "n", "v">>, <<"*", ".", "l", "o", "g">>,
         <<"a", "*", ".", "j", "s">> >> }

\* the max_size_kb argument: absent, zero, or one kilobyte
MaxSizeArgs == {<<>>, <<0>>, <<1>>}

\* bundleFiles(rootPath, includePatterns, excludePatterns, maxSizeKb) up to
\* the loop
bundleFiles ==
    \E includePatterns \in IncludeArgs, excludePatterns \in ExcludeArgs,
       maxSizeKb \in MaxSizeArgs :
        /\ bf.pc = "idle"
        /\ LET gitignoreMatchers == parseGitignoreFile(fs.gitignore)
               hasGitignore == gitignoreMatchers # NoMatchers
           IN  bf' = [NoBundle EXCEPT
                        !.pc = "loop",
                        !.includePatterns = includePatterns,
                        !.maxSizeKb = maxSizeKb,
                        !.maxBytes = MaxBytes(maxSizeKb),
                        !.gitignoreMatchers = gitignoreMatchers,
                        !.hasGitignore = hasGitignore,
                        !.simpleExcludes = SimpleExcludes(hasGitignore, excludePatterns),
                        !.sorted = Sorted(walkDir(fs))]
        /\ UNCHANGED <<fs, queryVars, cfgVars, twoVars, cliVars>>

\* the loop examines the next file
BundleFile ==
    /\ bf.pc = "loop"
    /\ bf.next <= Len(bf.sorted)
    /\ bf' = LoopBody(bf, fs.tree)
    /\ UNCHANGED <<fs, queryVars, cfgVars, twoVars, cliVars>>

\* the loop is over: header, security warnings, return
BundleReturn ==
    /\ bf.pc = "loop"
    /\ bf.next > Len(bf.sorted)
    /\ bf' = Manifest(bf)
    /\ UNCHANGED <<fs, queryVars, cfgVars, twoVars, cliVars>>

NextBundle ==
    \/ bundleFiles
    \/ BundleFile
    \/ BundleReturn

InitBundle ==
    /\ PROVIDERS = [p \in ProviderIds |-> DefaultConfig(p)]
    /\ LOG_CONVERSATIONS = TRUE
    /\ phase = "idle"
    /\ tool = "none"
    /\ providers = <<>>
    /\ unique = <<>>
    /\ ops = <<>>
    /\ ret = NoRet
    /\ logFiles = <<>>
    /\ fs \in Projects
    /\ bf = NoBundle
    /\ boot = NoBoot
    /\ calls = NoCalls
    /\ child = NoChild

SpecBundle == InitBundle /\ [][NextBundle]_vars

-----------------------------------------------------------------------------
\* Two calls at once: the invocations of two prism_compare calls interleave

\* the backends of the two calls: those that run a child process
CliIds == {"anthropic", "gemini"}

CliLists == [1..MinProviders -> CliIds]

\* a timer whose callback reaches invocation i of every call in flight
ReachEveryCall(c, i) == {<<d, i>> : d \in {e \in DOMAIN calls : i \in DOMAIN calls[e].ops}}

\* the closure of the timer of invocation i of call c: its own proc and reject
TimerReach(c, i) == {<<c, i>>}

\* the handler of call c runs up to its await
CallCompare ==
    \E c \in DOMAIN calls, ps \in CliLists :
        /\ calls[c].phase = "idle"
        /\ LET uniq == Unique(ps)
               started == [i \in 1..Len(uniq) |-> queryLLM(uniq[i], "")]
           IN  calls' = [calls EXCEPT
                           ![c] = ResumeCall([@ EXCEPT !.providers = ps,
                                                       !.unique = uniq], started)]
        /\ UNCHANGED <<queryVars, bundleVars, cfgVars, cliVars>>

\* 'close' of the child process of one invocation of one call
CallProcClose ==
    \E c \in DOMAIN calls :
        \E i \in DOMAIN calls[c].ops, code \in ExitCodes, out \in Stdouts :
            LET o == calls[c].ops
            IN  /\ o[i].proc \in {"running", "killed", "failed"}
                /\ o[i].proc = "failed" => code # 0
                /\ (code # 0 \/ o[i].status # "pending") => out = <<>>
                /\ o[i].adapter # "GeminiCLI" => \A k \in DOMAIN out : out[k] # "#"
                /\ calls' = [calls EXCEPT
                               ![c] = ResumeCall(@, [o EXCEPT ![i] = OnClose(@, code, out)])]
                /\ UNCHANGED <<queryVars, bundleVars, cfgVars, cliVars>>

\* 'error' of the child process of one invocation of one call
CallProcError ==
    \E c \in DOMAIN calls :
        \E i \in DOMAIN calls[c].ops :
            LET o == calls[c].ops
            IN  /\ o[i].proc = "running"
                /\ calls' = [calls EXCEPT
                               ![c] = ResumeCall(@, [o EXCEPT ![i] = OnError(@)])]
                /\ UNCHANGED <<queryVars, bundleVars, cfgVars, cliVars>>

\* the timer of one invocation of one call runs
CallTimerExpires ==
    \E c \in DOMAIN calls :
        \E i \in DOMAIN calls[c].ops :
            /\ calls[c].ops[i].timer = "armed"
            /\ calls' =
                 [d \in DOMAIN calls |->
                    LET o == calls[d].ops
                        new == [j \in DOMAIN o |->
                                  LET f == IF d = c /\ j = i
                                           THEN [o[j] EXCEPT !.timer = "fired"]
                                           ELSE o[j]
                                  IN  IF <<d, j>> \in TimerReach(c, i)
                                      THEN OnAbort(f) ELSE f]
                    IN  IF new = o THEN calls[d] ELSE ResumeCall(calls[d], new)]
            /\ UNCHANGED <<queryVars, bundleVars, cfgVars, cliVars>>

NextTwo ==
    \/ CallCompare
    \/ CallProcClose
    \/ CallProcError
    \/ CallTimerExpires

InitTwo ==
    /\ PROVIDERS = [p \in ProviderIds |-> DefaultConfig(p)]
    /\ LOG_CONVERSATIONS = TRUE
    /\ phase = "idle"
    /\ tool = "none"
    /\ providers = <<>>
    /\ unique = <<>>
    /\ ops = <<>>
    /\ ret = NoRet
    /\ logFiles = <<>>
    /\ fs = NoProject
    /\ bf = NoBundle
    /\ boot = NoBoot
    /\ calls = NoCalls
    /\ child = NoChild

SpecTwo == InitTwo /\ [][NextTwo]_vars

-----------------------------------------------------------------------------
\* Module load: the calls of cfg()

\* values of an environment variable: unset, empty, or a text
EnvValues == { <<>>, << JsonString("") >>, << JsonString("env") >> }

\* values of a key of settings.json: missing, "", a text, or false
SettingsValues ==
    { <<>>, << JsonString("") >>, << JsonString("file") >>, << JsonFalse >> }

\* the next call of cfg() in the order of the module's top-level code
LoadSetting ==
    /\ Len(boot.values) < Len(ConfigKeys)
    /\ LET c == ConfigKeys[Len(boot.values) + 1]
       IN  boot' = [boot EXCEPT
                      !.values = Append(@, Cfg(boot.env, boot.settings,
                                               c.key, c.envVar, c.fallback))]
    /\ UNCHANGED <<queryVars, bundleVars, twoVars, cliVars>>

NextCfg == LoadSetting

InitCfg ==
    /\ boot \in [env : [{ConfigKeys[k].envVar : k \in DOMAIN ConfigKeys} -> EnvValues],
                  settings : [{ConfigKeys[k].key : k \in DOMAIN ConfigKeys} -> SettingsValues],
                  values : {<<>>}]
    /\ PROVIDERS = [p \in ProviderIds |-> DefaultConfig(p)]
    /\ LOG_CONVERSATIONS = TRUE
    /\ phase = "idle"
    /\ tool = "none"
    /\ providers = <<>>
    /\ unique = <<>>
    /\ ops = <<>>
    /\ ret = NoRet
    /\ logFiles = <<>>
    /\ fs = NoProject
    /\ bf = NoBundle
    /\ calls = NoCalls
    /\ child = NoChild

SpecCfg == InitCfg /\ [][NextCfg]_vars

-----------------------------------------------------------------------------
\* One CLI adapter call and the events of its child process

CliAdapters == {"AnthropicCLI", "GeminiCLI"}

\* proc.stdout.on("data", (c) => (stdout += c.toString()))
StdoutData ==
    \E c \in StdoutChars :
        /\ child.proc \in {"running", "killed"}
        /\ Len(child.stdout) < MaxText
        /\ child.adapter # "GeminiCLI" => c # "#"
        /\ child' = [child EXCEPT !.stdout = Append(@, c)]
        /\ UNCHANGED <<queryVars, bundleVars, cfgVars, twoVars>>

\* proc.stderr.on("data", (c) => (stderr += c.toString()))
StderrData ==
    \E c \in Chars :
        /\ child.proc \in {"running", "killed"}
        /\ Len(child.stderr) < MaxText
        /\ child' = [child EXCEPT !.stderr = Append(@, c)]
        /\ UNCHANGED <<queryVars, bundleVars, cfgVars, twoVars>>

\* the streams of the child process are closed: after it ended by itself or
\* by a signal, or after it could not be spawned
ChildClose ==
    \E code \in CloseCodes :
        /\ child.proc \in {"running", "killed", "failed"}
        /\ child.proc = "failed" => code # "0"
        /\ child' = ChildOnClose(child, code)
        /\ UNCHANGED <<queryVars, bundleVars, cfgVars, twoVars>>

\* the process could not be spawned, or could not be killed
ChildError ==
    /\ child.proc \in {"running", "killed"}
    /\ \A k \in DOMAIN child.events : child.events[k][1] # "error"
    /\ child' = ChildOnError(child)
    /\ UNCHANGED <<queryVars, bundleVars, cfgVars, twoVars>>

\* timeoutMs after setTimeout, unless clearTimeout came first
ChildTimeout ==
    /\ child.timer = "armed"
    /\ child' = ChildOnTimeout(child)
    /\ UNCHANGED <<queryVars, bundleVars, cfgVars, twoVars>>

NextCli == StdoutData \/ StderrData \/ ChildClose \/ ChildError \/ ChildTimeout

InitCli ==
    /\ PROVIDERS = [p \in ProviderIds |-> DefaultConfig(p)]
    /\ LOG_CONVERSATIONS = TRUE
    /\ phase = "idle"
    /\ tool = "none"
    /\ providers = <<>>
    /\ unique = <<>>
    /\ ops = <<>>
    /\ ret = NoRet
    /\ logFiles = <<>>
    /\ fs = NoProject
    /\ bf = NoBundle
    /\ boot = NoBoot
    /\ calls = NoCalls
    /\ child \in {SpawnChild(a) : a \in CliAdapters}

\* a timer that is armed and not cleared runs its callback
SpecCli == InitCli /\ [][NextCli]_vars /\ WF_vars(ChildTimeout)

-----------------------------------------------------------------------------
\* Vocabulary of the properties

\* the distinct backend identifiers of the request
Requested == {providers[k] : k \in DOMAIN providers}

\* a compare call that got as far as dispatching, and has returned
CompareDone == IsCompare(tool) /\ phase = "done" /\ ops # <<>>

\* position of p among the distinct backends of the request, by first occurrence
Rank(p) ==
    LET first == CHOOSE k \in DOMAIN providers :
                    /\ providers[k] = p
                    /\ \A j \in 1..(k - 1) : providers[j] # p
    IN  Cardinality({providers[j] : j \in 1..(first - 1)}) + 1

SectionsOf(p) == {k \in DOMAIN ret.sections : ret.sections[k].provider = p}

\* section sec shows the outcome of invocation o
Reports(sec, o) ==
    /\ o.status # "pending"
    /\ sec.failed = (o.status = "rejected")
    /\ sec.failed => sec.error = o.error
    /\ ~sec.failed => sec.text = o.text

Failed(i) == ops[i].status = "rejected"
Succeeded(i) == ops[i].status = "fulfilled"

-----------------------------------------------------------------------------
\* Properties

\* C1: a compare call that reaches dispatch returns as many sections as the
\* request names distinct backends, and every distinct requested backend has
\* exactly one section, whatever each backend did (success, failure, timeout,
\* thrown configuration error).
C1_OneSectionPerBackend ==
    CompareDone =>
        /\ ret.kind = "result"
        /\ Len(ret.sections) = Cardinality(Requested)
        /\ \A p \in Requested : Cardinality(SectionsOf(p)) = 1

\* a three-backend compare that returned with one success, one timeout and
\* one synchronously thrown configuration error
C1_Witness ==
    /\ CompareDone
    /\ Cardinality(Requested) = MaxProviders
    /\ \E i, j, k \in DOMAIN ops :
        /\ Succeeded(i)
        /\ Failed(j) /\ ops[j].error = "timed out"
        /\ Failed(k) /\ ops[k].error = "API key not set"

\* C2: the i-th section of a compare result belongs to the i-th distinct
\* backend of the request (first occurrences), in every order in which the
\* concurrent invocations settle.
C2_RequestOrder ==
    CompareDone =>
        \A k \in DOMAIN ret.sections :
            /\ Rank(ret.sections[k].provider) = k
            /\ \E i \in DOMAIN ops :
                /\ ops[i].provider = ret.sections[k].provider
                /\ Reports(ret.sections[k], ops[i])

\* the second backend was rejected during dispatch, before the first one
\* (lmstudio, after a model lookup and a chat request) settled
C2_Witness ==
    /\ CompareDone
    /\ Len(ops) = MaxProviders
    /\ unique[1] = "lmstudio"
    /\ ops[1].lookups = 1
    /\ Succeeded(1)
    /\ Failed(2) /\ ops[2].error = "API key not set"
    /\ ops[3].timer = "fired"

\* an invocation has been started: its process was spawned, its request or
\* model lookup sent, or it stopped on its own provider's missing key
Started(i) ==
    \/ ops[i].sent + ops[i].lookups >= 1
    \/ /\ Failed(i)
       /\ ops[i].error = "API key not set"
       /\ PROVIDERS[ops[i].provider].apiKey = ""

\* C3: in a compare call no backend's failure, timeout or exception touches a
\* sibling: every requested backend's invocation is started, an event of one
\* invocation leaves every other invocation as it was (it is neither
\* cancelled nor settled by it), and the section returned for a backend
\* reports that backend's own outcome.
C3_Isolation ==
    /\ [](IsCompare(tool) /\ ops # <<>> =>
            /\ DOMAIN ops = 1..Cardinality(Requested)
            /\ \A i \in DOMAIN ops : Started(i))
    /\ [](CompareDone =>
            /\ DOMAIN ret.sections = DOMAIN ops
            /\ \A i \in DOMAIN ops : Reports(ret.sections[i], ops[i]))
    /\ [][ops # <<>> =>
            \A i, j \in DOMAIN ops :
                (i # j /\ ops'[i] # ops[i]) => ops'[j] = ops[j]]_vars

\* a compare returned with the first backend timed out, the second stopped
\* by a thrown configuration error, and the third successful with text
C3_Witness ==
    /\ CompareDone
    /\ Len(ops) = MaxProviders
    /\ Failed(1) /\ ops[1].error = "timed out"
    /\ Failed(2) /\ ops[2].error = "API key not set"
    /\ Succeeded(3) /\ ops[3].text # <<>>

\* C4: a compare result is flagged isError exactly when every dispatched
\* backend failed; one success is enough for a result that is not an error.
C4_ErrorIffAllFailed ==
    (IsCompare(tool) /\ phase = "done") =>
        (ret.isError <=> \A i \in DOMAIN ops : Failed(i))

\* a partial success: two backends failed, one succeeded, not an error
C4_Witness ==
    /\ CompareDone
    /\ ~ret.isError
    /\ \E i, j, k \in DOMAIN ops :
        i # j /\ Failed(i) /\ Failed(j) /\ Succeeded(k)

\* C5: the success count is the number of backends whose adapter returned a
\* result, the failure count the number whose adapter failed, their sum the
\* number of distinct requested backends, and the summary reads X/Y with
\* X the success count and Y that number.
C5_Counts ==
    CompareDone =>
        /\ ret.successes = Cardinality({i \in DOMAIN ops : Succeeded(i)})
        /\ ret.failures = Cardinality({i \in DOMAIN ops : Failed(i)})
        /\ ret.successes + ret.failures = Cardinality(Requested)
        /\ ret.total = Cardinality(Requested)
        /\ ((\A i \in DOMAIN ops : Succeeded(i)) => ret.successes = Len(unique))

\* all three backends succeeded
C5_Witness ==
    /\ CompareDone
    /\ Len(unique) = MaxProviders
    /\ \A i \in DOMAIN ops : Succeeded(i)
    /\ ret.successes = MaxProviders

\* C6: a backend identifier named more than once in a compare request gets
\* exactly one invocation, at most one request or process, and exactly one
\* section, at the position of its first occurrence.
C6_Dedup ==
    (IsCompare(tool) /\ ops # <<>>) =>
        \A p \in Requested :
            /\ Cardinality({i \in DOMAIN ops : ops[i].provider = p}) = 1
            /\ \A i \in DOMAIN ops : ops[i].provider = p =>
                    /\ i = Rank(p)
                    /\ ops[i].sent <= 1
            /\ phase = "done" => SectionsOf(p) = {Rank(p)}

\* a request naming a backend twice, around another one, has returned
C6_Witness ==
    /\ CompareDone
    /\ Len(providers) = MaxProviders
    /\ providers[1] = providers[3]
    /\ providers[1] # providers[2]
    /\ Len(ret.sections) = 2
    /\ ops[1].sent = 1

\* C7: a single-backend query ends with a non-empty result text or with a
\* non-empty error string, never with a non-error result whose text is empty.
C7_TextOrError ==
    (tool = "prism_query" /\ phase = "done") =>
        /\ ret.kind = "result"
        /\ Len(ret.sections) = 1
        /\ \/ ret.isError /\ ret.sections[1].error # ""
           \/ ~ret.isError /\ ret.sections[1].text # <<>>

\* the deadline of invocation i passes in this step, or has passed before it
Overdue(i) ==
    \/ ops[i].late
    \/ ops[i].timer = "armed" /\ ops'[i].timer = "fired"

\* C8: an invocation whose backend has not delivered its complete response
\* when the timeout has elapsed ends as a timeout error, never as a success
\* (nor as any other outcome), also when the response headers arrived in time
\* and the body did not.
C8_LateIsTimeout ==
    [][\A i \in DOMAIN ops :
          (ops[i].status = "pending" /\ ops'[i].status # "pending" /\ Overdue(i))
              => (ops'[i].status = "rejected" /\ ops'[i].error = "timed out")]_vars

\* the timer of invocation i ran in this step while i was pending
Expires(i) ==
    /\ ops[i].timer = "armed"
    /\ ops'[i].timer = "fired"
    /\ ops[i].status = "pending"

\* C9: every in-flight adapter invocation has a timer of its own; when it
\* expires with the operation pending, that operation's request is aborted or
\* its process killed and its result is a timeout error, and no other
\* invocation's request, process, timer or result changes.
C9_OwnTimer ==
    /\ [](\A i \in DOMAIN ops :
            ops[i].pc \in {"proc", "fetch"} => ops[i].timer = "armed")
    /\ [][\A i \in DOMAIN ops :
            Expires(i) =>
                /\ ops'[i].status = "rejected"
                /\ ops'[i].error = "timed out"
                /\ ops'[i].proc = "killed" \/ ops'[i].conn = "aborted"
                /\ \A j \in DOMAIN ops \ {i} : ops'[j] = ops[j]]_vars

\* one invocation has timed out while a CLI sibling and an HTTP sibling are
\* still in flight with their timers armed
C9_Witness ==
    \E i, j, k \in DOMAIN ops :
        /\ ops[i].timer = "fired" /\ ops[i].error = "timed out"
        /\ ops[j].pc = "proc" /\ ops[j].timer = "armed"
        /\ ops[k].pc = "fetch" /\ ops[k].timer = "armed"

\* C10: whatever the adapters do, each of the four handlers returns a
\* structured result; no rejection of a backend leaves a handler as an
\* exception.
C10_NoException ==
    /\ ret.kind # "exception"
    /\ phase = "done" => ret.kind = "result"
    /\ (phase = "done" /\ \E i \in DOMAIN ops : Failed(i)) =>
            \/ ret.isError
            \/ IsCompare(tool) /\ \E i \in DOMAIN ops : Succeeded(i)

\* a single query whose process could not be spawned returned an error result
C10_Witness ==
    /\ tool = "prism_query"
    /\ phase = "done"
    /\ ret.kind = "result"
    /\ ret.isError
    /\ ret.sections[1].error = "Failed to spawn"

\* the backend of invocation i needs an API key and has none
MissingCredential(p) ==
    \/ p \in {"anthropic", "gemini"} /\ PROVIDERS[p].mode = "api" /\ PROVIDERS[p].apiKey = ""
    \/ p = "deepseek" /\ PROVIDERS[p].apiKey = ""

\* no request, model lookup, process, connection or timer was ever made for o
Untouched(o) ==
    /\ o.sent = 0
    /\ o.lookups = 0
    /\ o.proc = "none"
    /\ o.conn = "none"
    /\ o.timer = "none"

\* C11: an invocation of a backend whose credential is missing (anthropic or
\* gemini in api mode without key, deepseek without key) is rejected with the
\* configuration error before any HTTP request is sent or process spawned,
\* and the handler reports that error for that backend.
C11_MissingCredential ==
    \A i \in DOMAIN ops :
        MissingCredential(ops[i].provider) =>
            /\ Failed(i)
            /\ ops[i].error = "API key not set"
            /\ Untouched(ops[i])
            /\ phase = "done" =>
                    /\ ret.sections[i].failed
                    /\ ret.sections[i].provider = ops[i].provider
                    /\ ret.sections[i].error = "API key not set"

\* a compare over anthropic (api mode, no key), deepseek (no key) and a
\* third backend has returned
C11_Witness ==
    /\ CompareDone
    /\ Len(ops) = MaxProviders
    /\ \E i, j \in DOMAIN ops :
        /\ ops[i].provider = "anthropic" /\ MissingCredential("anthropic")
        /\ ops[j].provider = "deepseek" /\ MissingCredential("deepseek")
        /\ Untouched(ops[i]) /\ Untouched(ops[j])

\* the mode setting of backend p is neither of the two documented values
InvalidMode(p) ==
    p \in {"anthropic", "gemini"} /\ PROVIDERS[p].mode \notin {"cli", "api"}

\* C12: an invocation of a backend whose mode setting is neither 'cli' nor
\* 'api' is rejected at once as a configuration error, without any adapter
\* being executed (no process, no request).
C12_InvalidModeRejected ==
    \A i \in DOMAIN ops :
        InvalidMode(ops[i].provider) =>
            /\ Failed(i)
            /\ Untouched(ops[i])

\* C13: no failure is retried: in one tool call every dispatched backend has
\* at most one main request issued or one process spawned (and at most one
\* model lookup), and an invocation that failed stays failed with the same
\* error and sends nothing more.
C13_NoRetry ==
    /\ [](/\ Len(ops) = Len(unique)
          /\ \A i \in DOMAIN ops : ops[i].sent <= 1 /\ ops[i].lookups <= 1)
    /\ [][\A i \in DOMAIN ops :
            Failed(i) =>
                /\ ops'[i].status = "rejected"
                /\ ops'[i].error = ops[i].error
                /\ ops'[i].sent = ops[i].sent
                /\ ops'[i].lookups = ops[i].lookups]_vars

\* a compare has returned with all three backends failed in different ways
\* (spawn failure, HTTP error status, timeout), each after one attempt
C13_Witness ==
    /\ CompareDone
    /\ ret.isError
    /\ \E i, j, k \in DOMAIN ops :
        /\ ops[i].error = "Failed to spawn" /\ ops[i].sent = 1
        /\ ops[j].error = "HTTP status" /\ ops[j].sent = 1
        /\ ops[k].error = "timed out" /\ ops[k].sent = 1

\* C14: for every HTTP adapter a 2xx response whose body lacks the expected
\* payload field (Anthropic: content, Gemini: candidate parts, OpenAI
\* compatible: choices message) ends the invocation with the 'no response'
\* error, never with a success.
C14_BarePayloadIsError ==
    \A i \in DOMAIN ops :
        (ops[i].ok /\ ops[i].data = "bare") =>
            /\ Failed(i)
            /\ ops[i].error = "No response"

\* C15: an lmstudio invocation with neither an explicit nor a configured
\* model makes one model lookup, which completes before the chat request is
\* issued; when the lookup fails or lists no model the chat request is never
\* issued and the invocation fails as 'not reachable'; when a model is given
\* or configured no lookup is made.
C15_DiscoveryFirst ==
    /\ [](\A i \in DOMAIN ops :
            ops[i].provider = "lmstudio" =>
                /\ ops[i].model \in {"x", "m"} => ops[i].lookups = 0
                /\ PROVIDERS["lmstudio"].defaultModel # "" => ops[i].lookups = 0
                /\ ops[i].model \in {"", "d"} => ops[i].lookups = 1
                /\ ops[i].pc = "discover" => ops[i].sent = 0 /\ ops[i].conn = "none"
                /\ ops[i].model = "" =>
                        /\ ops[i].sent = 0
                        /\ ~Succeeded(i)
                        /\ Failed(i) => ops[i].error = "LM Studio not reachable"
                /\ ops[i].error = "LM Studio not reachable" =>
                        ops[i].sent = 0 /\ ops[i].conn = "none")
    /\ [][\A i \in DOMAIN ops :
            (ops[i].lookups = 1 /\ ops'[i].sent > ops[i].sent) =>
                /\ ops[i].pc = "discover"
                /\ ops'[i].model = "d"]_vars

\* an lmstudio query without model looked a model up, sent one chat request
\* with the discovered model, and succeeded
C15_Witness ==
    /\ tool = "prism_query"
    /\ phase = "done"
    /\ ops[1].provider = "lmstudio"
    /\ ops[1].lookups = 1
    /\ ops[1].model = "d"
    /\ ops[1].sent = 1
    /\ Succeeded(1)

\* the elements of a list
Range(list) == {list[k] : k \in DOMAIN list}

\* the paths of the sections of the bundle text
Bundled == {bf.bundle[k].path : k \in DOMAIN bf.bundle}

\* C16: at every point of a bundling call, and in the manifest it returns,
\* the included-file list and the blocked-secret list have no path in
\* common, for every tree, .gitignore, include and exclude argument.
C16_IncludedNotBlocked ==
    Range(bf.files) \cap Range(bf.blockedSecrets) = {}

\* a call returned a manifest with an included file and a blocked secret
C16_Witness ==
    /\ bf.pc = "returned"
    /\ bf.files # <<>>
    /\ bf.blockedSecrets # <<>>

\* C17: no file whose path satisfies isSecretFile is opened for reading by
\* the bundler, and none is in the included list or in the bundle text.
C17_SecretNeverRead ==
    \A p \in DOMAIN fs.tree :
        isSecretFile(p) =>
            /\ p \notin bf.opened
            /\ Normalize(p) \notin Range(bf.files)
            /\ Normalize(p) \notin Bundled

\* a call returned after meeting a readable .env that no rule excluded and
\* reading another file into the bundle
C17_Witness ==
    /\ bf.pc = "returned"
    /\ <<".", "e", "n", "v">> \in DOMAIN fs.tree
    /\ fs.tree[<<".", "e", "n", "v">>].kind = "text"
    /\ <<".", "e", "n", "v">> \in Range(bf.blockedSecrets)
    /\ bf.opened # {}
    /\ bf.files # <<>>

\* C18: the manifest's blocked list holds every regular file of the walk
\* whose path satisfies isSecretFile, also when the file fails the include
\* filter or matches an always-on, fallback, user or .gitignore exclusion.
C18_EverySecretBlocked ==
    bf.pc = "returned" =>
        \A p \in Range(bf.sorted) :
            isSecretFile(p) => Normalize(p) \in Range(bf.blockedSecrets)

\* C19: in the bundle-then-query and bundle-then-compare operations the
\* bundle text reaches the chosen backends only: no file written to the log
\* directory contains it.
C19_BundleNotLogged ==
    \A k \in DOMAIN logFiles : "bundle" \notin Range(logFiles[k].prompt)

\* the compiled .gitignore matchers are consulted by the loop
GitignoreActive == bf.gitignoreMatchers # NoMatchers

\* the fallback list is part of the exclusion list, after ALWAYS_EXCLUDE
FallbackActive ==
    /\ Len(bf.simpleExcludes) >= Len(ALWAYS_EXCLUDE) + Len(FALLBACK_EXCLUDES)
    /\ SubSeq(bf.simpleExcludes, Len(ALWAYS_EXCLUDE) + 1,
              Len(ALWAYS_EXCLUDE) + Len(FALLBACK_EXCLUDES)) = FALLBACK_EXCLUDES

\* C20: in a bundling call exactly one of the two base rule sets is active,
\* the compiled .gitignore rules or the fallback list; the choice is made
\* before the first file is examined and does not change while files are
\* examined; hasGitignore and the header of the bundle report it.
C20_OneBaseRuleSet ==
    /\ [](bf.pc # "idle" =>
            /\ GitignoreActive # FallbackActive
            /\ bf.hasGitignore = GitignoreActive
            /\ bf.pc = "returned" =>
                    (bf.header = ".gitignore + always-exclude") = GitignoreActive)
    /\ [][bf.pc = "loop" =>
            /\ bf'.gitignoreMatchers = bf.gitignoreMatchers
            /\ bf'.simpleExcludes = bf.simpleExcludes
            /\ bf'.hasGitignore = bf.hasGitignore]_vars

\* under a .gitignore that names ".env" and "lib/", a.log (which the
\* fallback list would exclude) was bundled and lib/a.js was not
C20_Witness ==
    /\ bf.pc = "returned"
    /\ bf.hasGitignore
    /\ <<"l", "i", "b", "/", "a", ".", "j", "s">> \in DOMAIN fs.tree
    /\ bf.files = << <<"a", ".", "l", "o", "g">> >>

\* C21: whenever a .gitignore file is present at the bundling root, also an
\* empty one or one of comments, blank lines or negation lines only, the
\* fallback exclude list is not applied.
C21_NoFallbackWithGitignore ==
    (bf.pc # "idle" /\ fs.gitignore.exists) => ~FallbackActive

\* path p matches an exclusion rule that is active in the call
Excluded(p) ==
    \/ \E k \in DOMAIN bf.simpleExcludes : matchesPattern(p, bf.simpleExcludes[k])
    \/ \E k \in DOMAIN bf.gitignoreMatchers : RegexTest(bf.gitignoreMatchers[k], p)

\* C22: exclusion is additive: no file of the included list matches an
\* active exclusion rule (always-on list, active base set, caller's exclude
\* patterns), also when it matches an include pattern.
C22_ExclusionAdditive ==
    \A k \in DOMAIN bf.files : ~Excluded(bf.files[k])

\* with include ["*.js"] and no .gitignore, a.js was bundled and lib/a.js,
\* which matches the include pattern and the fallback entry "lib/", was not
C22_Witness ==
    /\ bf.pc = "returned"
    /\ bf.includePatterns # <<>>
    /\ ~bf.hasGitignore
    /\ <<"l", "i", "b", "/", "a", ".", "j", "s">> \in DOMAIN fs.tree
    /\ bf.files = << <<"a", ".", "j", "s">> >>

\* C23 as stated: the running total of the appended sections is at most
\* max_size_kb * 1024 (500 * 1024 when max_size_kb is absent) at every step.
C23_AtMostMaxSizeKb ==
    bf.pc # "idle" =>
        bf.totalSize <= (IF bf.maxSizeKb = <<>> THEN 500 ELSE bf.maxSizeKb[1]) * 1024

\* C24: once the budget test has fired for one file of a call, no more
\* content is appended: while the truncated count is positive the included
\* list and the bundle text never grow, also for a later file that fits.
C24_TruncationSticks ==
    [][bf.truncatedCount > 0 =>
            /\ bf'.files = bf.files
            /\ bf'.bundle = bf.bundle]_vars

\* C25: a call of bundleFiles on a root directory that cannot be listed
\* fails as a whole: it does not go on to the file loop and returns no
\* manifest.
C25_UnreadableRootFails ==
    fs.root = "noaccess" => bf.pc \notin {"loop", "returned"}

\* the directories that path p lies under, at any depth
Ancestors(p) == {d \in DOMAIN fs.dirs : StartsWith(p, d \o <<"/">>)}

\* C26: every path that the walk returns is a regular file of the project,
\* not a symbolic link, and none of the directories it lies under is a
\* symbolic link; the walk is one finite computation for every project.
C26_NoSymlinks ==
    bf.pc # "idle" =>
        \A k \in DOMAIN bf.sorted :
            /\ bf.sorted[k] \in DOMAIN fs.tree
            /\ fs.tree[bf.sorted[k]].kind # "symlink"
            /\ \A d \in Ancestors(bf.sorted[k]) : fs.dirs[d] # "symlink"

\* a call returned over a project whose directory lib is a symbolic link
\* holding a text file, with the regular file a.js bundled
C26_Witness ==
    /\ bf.pc = "returned"
    /\ <<"l", "i", "b">> \in DOMAIN fs.dirs
    /\ fs.dirs[<<"l", "i", "b">>] = "symlink"
    /\ fs.tree[<<"l", "i", "b", "/", "a", ".", "j", "s">>].kind = "text"
    /\ bf.sorted = << <<"a", ".", "j", "s">> >>
    /\ bf.files = << <<"a", ".", "j", "s">> >>

\* the lines of the project's .gitignore
GitignoreLines ==
    IF fs.gitignore.exists THEN Split(fs.gitignore.raw, "\n") ELSE <<>>

\* the .gitignore of the project has the line
HasLine(line) == \E k \in DOMAIN GitignoreLines : GitignoreLines[k] = line

\* C27: when the .gitignore has the line "**/a.js", every walked file named
\* a.js, at the root or under any number of directories, is matched by a
\* compiled rule of the call.
C27_DoubleStarPrefix ==
    (bf.pc # "idle" /\ HasLine(<<"*", "*", "/", "a", ".", "j", "s">>)) =>
        \A k \in DOMAIN bf.sorted :
            Basename(bf.sorted[k]) = <<"a", ".", "j", "s">> =>
                \E j \in DOMAIN bf.gitignoreMatchers :
                    RegexTest(bf.gitignoreMatchers[j], Normalize(bf.sorted[k]))

\* C28: when the .gitignore has the line "lib/**", the rule compiled from it
\* matches every walked path under lib, at any depth, and no other walked
\* path.
C28_DoubleStarSuffix ==
    (bf.pc # "idle" /\ HasLine(<<"l", "i", "b", "/", "*", "*">>)) =>
        \A k \in DOMAIN bf.sorted :
            RegexTest(CompileLine(<<"l", "i", "b", "/", "*", "*">>)[1],
                      Normalize(bf.sorted[k]))
                <=> StartsWith(bf.sorted[k], <<"l", "i", "b", "/">>)

\* C29: when the .gitignore has the line "lib/", the rule compiled from it
\* matches a walked file only if the file lies under a directory named lib;
\* it never matches a regular file named lib.
C29_DirectoryOnly ==
    (bf.pc # "idle" /\ HasLine(<<"l", "i", "b", "/">>)) =>
        \A k \in DOMAIN bf.sorted :
            RegexTest(CompileLine(<<"l", "i", "b", "/">>)[1], Normalize(bf.sorted[k]))
                => \E d \in Ancestors(bf.sorted[k]) : Basename(d) = <<"l", "i", "b">>

\* the lines without those that start with "!"
RECURSIVE WithoutNegations(_)
WithoutNegations(lines) ==
    IF lines = <<>> THEN <<>>
    ELSE (IF Trim(Head(lines)) # <<>> /\ Head(Trim(Head(lines))) = "!"
          THEN <<>> ELSE <<Head(lines)>>) \o WithoutNegations(Tail(lines))

\* C30: the compiled rules of a call are those of the .gitignore with its
\* negation lines removed, so the negation lines change nothing about which
\* files the other lines exclude.
C30_NegationContributesNothing ==
    bf.pc # "idle" =>
        bf.gitignoreMatchers = CompileLines(WithoutNegations(GitignoreLines))

\* a call returned over a .gitignore with the lines "lib/" and "!lib/a.js":
\* lib/a.js was walked and is not bundled, a.js is
C30_Witness ==
    /\ bf.pc = "returned"
    /\ HasLine(<<"l", "i", "b", "/">>)
    /\ HasLine(<<"!", "l", "i", "b", "/", "a", ".", "j", "s">>)
    /\ bf.sorted = << <<"a", ".", "j", "s">>, <<"l", "i", "b", "/", "a", ".", "j", "s">> >>
    /\ bf.files = << <<"a", ".", "j", "s">> >>

\* the value is missing or the empty string
AbsentOrEmpty(opt) == opt = <<>> \/ opt[1] = JsonString("")

\* C31: every value of cfg() is the environment variable when that is set
\* and not empty; otherwise the value of settings.json when that is present
\* and not empty; otherwise the built-in default.
C31_Precedence ==
    \A k \in DOMAIN boot.values :
        LET c == ConfigKeys[k]
            e == boot.env[c.envVar]
            f == boot.settings[c.key]
        IN  boot.values[k] =
                IF ~AbsentOrEmpty(e) THEN e[1]
                ELSE IF ~AbsentOrEmpty(f) THEN f[1]
                ELSE JsonString(c.fallback)

\* every dispatched invocation of the call has settled
AllSettled == \A i \in DOMAIN ops : ops[i].status # "pending"

\* C32: a compare call that dispatched has returned exactly when every one
\* of its adapter invocations has settled: it does not return while one is
\* pending, whatever the others did, and it has returned once none is.
C32_WaitForAll ==
    (IsCompare(tool) /\ ops # <<>>) => (phase = "done" <=> AllSettled)

\* a bundle compare over two backends returned with one timeout and one
\* success
C32_Witness ==
    /\ tool = "prism_bundle_compare"
    /\ phase = "done"
    /\ Len(ops) = MinProviders
    /\ \E i, j \in DOMAIN ops :
        /\ Failed(i) /\ ops[i].error = "timed out"
        /\ Succeeded(j)

FitsAndPasses ==
    /\ bf.pc = "loop"
    /\ bf.next <= Len(bf.sorted)
    /\ LET p == bf.sorted[bf.next]
       IN  /\ ~Excluded(Normalize(p))
           /\ ~isSecretFile(Normalize(p))
           /\ fs.tree[p].kind = "text"
           /\ bf.totalSize
                + SectionLength(Normalize(p), redactSecrets(fs.tree[p]).content)
                    <= bf.maxBytes

\* C34: when include patterns were given, every path of the included list
\* matches one of them under matchesPattern; when none were given, the
\* include filter removes nothing: a file that passes every other test is
\* appended to the included list.
C34_IncludeFilter ==
    /\ [](bf.includePatterns # <<>> =>
            \A k \in DOMAIN bf.files :
                \E j \in DOMAIN bf.includePatterns :
                    matchesPattern(bf.files[k], bf.includePatterns[j]))
    /\ [][(FitsAndPasses /\ bf.includePatterns = <<>>) =>
                bf'.files = Append(bf.files, Normalize(bf.sorted[bf.next]))]_vars

\* a call with include pattern "*.js" returned over the two files a.js and
\* lib, which no exclusion rule matches: a.js alone is bundled
C34_Witness ==
    /\ bf.pc = "returned"
    /\ bf.includePatterns = << <<"*", ".", "j", "s">> >>
    /\ bf.sorted = << <<"a", ".", "j", "s">>, <<"l", "i", "b">> >>
    /\ ~Excluded(<<"l", "i", "b">>)
    /\ bf.files = << <<"a", ".", "j", "s">> >>

\* patterns of the three forms and of none: "*.js", "*.", "lib/", "lib/*",
\* ".ssh/", "/", "*", "a*.js", "a.js", ".env", "lib", "js"
GlobSamples ==
    { <<"*", ".", "j", "s">>, <<"*", ".">>, <<"l", "i", "b", "/">>,
      <<"l", "i", "b", "/", "*">>, <<".", "s", "s", "h", "/">>, <<"/">>, <<"*">>,
      <<"a", "*", ".", "j", "s">>, <<"a", ".", "j", "s">>, <<".", "e", "n", "v">>,
      <<"l", "i", "b">>, <<"j", "s">> }

\* the patterns that the call applies
ActivePatterns ==
    {bf.simpleExcludes[k] : k \in DOMAIN bf.simpleExcludes}
        \cup {bf.includePatterns[k] : k \in DOMAIN bf.includePatterns}

\* the reference matcher: suffix for "*.ext"; for "name/" and "name/*" the
\* directory segments of the path, without its file name, hold the segments
\* of name in a row; equality with the file name otherwise
RefMatch(path, pattern) ==
    LET norm == Normalize(path)
        segments == Split(norm, "/")
        dirs == SubSeq(segments, 1, Len(segments) - 1)
        n == Len(pattern)
    IN  IF n >= 2 /\ pattern[1] = "*" /\ pattern[2] = "."
        THEN \E k \in 1..(Len(norm) + 1) :
                SubSeq(norm, k, Len(norm)) = SubSeq(pattern, 2, n)
        ELSE IF n >= 1 /\ (pattern[n] = "/" \/ (n >= 2 /\ pattern[n - 1] = "/" /\ pattern[n] = "*"))
        THEN LET name == IF pattern[n] = "/" THEN SubSeq(pattern, 1, n - 1)
                         ELSE SubSeq(pattern, 1, n - 2)
                 want == Split(name, "/")
             IN  \E i \in 1..(Len(dirs) - Len(want) + 1) :
                    SubSeq(dirs, i, i + Len(want) - 1) = want
        ELSE segments[Len(segments)] = pattern

\* C35: for every walked path and every pattern that the call applies or
\* that is one of the samples, matchesPattern gives what the reference
\* gives; a "*" that is not the start of "*." or the end of "/*" is an
\* ordinary character.
C35_SimpleGlobReference ==
    bf.pc # "idle" =>
        \A k \in DOMAIN bf.sorted :
            \A pattern \in ActivePatterns \cup GlobSamples :
                matchesPattern(bf.sorted[k], pattern) <=> RefMatch(bf.sorted[k], pattern)

\* a call with the exclude pattern "a*.js" returned over a.js and lib/a.js
\* with both bundled
C35_Witness ==
    /\ bf.pc = "returned"
    /\ <<"a", "*", ".", "j", "s">> \in ActivePatterns
    /\ bf.files = << <<"a", ".", "j", "s">>, <<"l", "i", "b", "/", "a", ".", "j", "s">> >>

\* the lines of a text
RECURSIVE Lines(_)
Lines(text) ==
    IF \A k \in DOMAIN text : text[k] # "\n" THEN <<text>>
    ELSE LET n == CHOOSE k \in DOMAIN text :
                      text[k] = "\n" /\ \A j \in 1..(k - 1) : text[j] # "\n"
         IN  <<SubSeq(text, 1, n - 1)>> \o Lines(SubSeq(text, n + 1, Len(text)))

\* a line 'KEY=value' or 'KEY: value' whose value has at least 8 characters
\* that are neither white space nor quotes
IsKeyValueLine(line) ==
    \E value \in {"v", "sk"} :
        line \in { <<"K", "=", value>>, <<"K", ":", value>>,
                   <<"K", ":", " ", value>> }

\* the raw content of the file behind a section of the bundle
RawOf(section) ==
    fs.tree[CHOOSE p \in Range(bf.sorted) : Normalize(p) = section.path]

\* C36: in every bundled file, a line 'KEY=value' or 'KEY: value' with a
\* sensitive key and a value of at least 8 non-space, non-quote characters
\* keeps its key name and separator and has its whole value replaced by the
\* redaction marker, the file is in the included list, and the redacted
\* count is at least 1.
C36_KeyValueRedacted ==
    \A k \in DOMAIN bf.bundle :
        LET section == bf.bundle[k]
            before == Lines(RawOf(section).text)
            after == Lines(section.content.text)
        IN  \A i \in DOMAIN before :
                IsKeyValueLine(before[i]) =>
                    /\ i \in DOMAIN after
                    /\ after[i] = [before[i] EXCEPT ![Len(before[i])] = "[REDACTED]"]
                    /\ section.path \in Range(bf.files)
                    /\ bf.totalRedacted >= 1

\* the number of secret values redacted in the sections of a bundle
RECURSIVE RedactedIn(_)
RedactedIn(bundle) ==
    IF bundle = <<>> THEN 0
    ELSE redactSecrets(RawOf(Head(bundle))).redactedCount + RedactedIn(Tail(bundle))

\* C37: the redacted count of the manifest and of the security warning is
\* the number of secret values redacted in the files that were bundled; a
\* file skipped for size adds nothing to it.
C37_CountsBundledOnly ==
    /\ bf.totalRedacted = RedactedIn(bf.bundle)
    /\ (bf.pc = "returned" /\ RedactedIn(bf.bundle) = 0) =>
            "REDACTED" \notin Range(bf.securityWarning)

\* what the first callback that ran decides
OutcomeOf(c, event) ==
    CASE event[1] = "timer" ->
            /\ c.status = "rejected"
            /\ c.error = [NoError EXCEPT !.message = "timed out"]
      [] event[1] = "error" ->
            /\ c.status = "rejected"
            /\ c.error = [NoError EXCEPT !.message = "Failed to spawn"]
      [] event[1] = "close" /\ event[2] = "0" ->
            /\ c.status = "fulfilled"
            /\ c.text = CleanStdout(c, c.stdout)
      [] OTHER ->
            /\ c.status = "rejected"
            /\ c.error = [message |-> "exited with code", code |-> event[2],
                          stderr |-> c.stderr]

\* C38: a CLI adapter call settles exactly once and the first of timer
\* expiry, 'close' and 'error' decides its outcome: exit code 0 gives success
\* with the text of the captured stdout, any other code, null included, an
\* error carrying the code and the captured stderr, a spawn error a
\* spawn-failure error, the timer a timeout error; a settled call never
\* changes, whatever arrives later; and every call settles.
C38_FirstEventDecides ==
    /\ [](child.status = "pending" <=> child.events = <<>>)
    /\ [](child.events # <<>> => OutcomeOf(child, child.events[1]))
    /\ [][child.status # "pending" =>
            /\ child'.status = child.status
            /\ child'.text = child.text
            /\ child'.error = child.error]_vars
    /\ <>(child.status # "pending")

\* the timer rejected the call with a timeout, then the killed process
\* closed with code null: the outcome is still the timeout
C38_Witness ==
    /\ child.events = << <<"timer", "">>, <<"close", "null">> >>
    /\ child.status = "rejected"
    /\ child.error.message = "timed out"

\* the file at position k of the sorted candidates passes the include
\* filter, every exclusion rule and the secret file-identity check, can be
\* read and is not classified binary
Passes(k) ==
    LET p == Normalize(bf.sorted[k])
    IN  /\ bf.includePatterns # <<>> =>
                \E j \in DOMAIN bf.includePatterns :
                    matchesPattern(p, bf.includePatterns[j])
        /\ ~Excluded(p)
        /\ ~isSecretFile(p)
        /\ fs.tree[bf.sorted[k]].kind = "text"

\* the positions in the sorted candidates of the files examined so far
\* that pass
PassedSoFar == {k \in 1..(bf.next - 1) : Passes(k)}

\* C39: every examined candidate that passes the include filter, the
\* exclusion rules and the secret check, is readable and is not binary is
\* either in the included list, with exactly one section of the bundle, the
\* sections in the order of the list and of the sorted candidates, or was
\* counted as truncated: included + truncated is the number of such
\* candidates, and fileCount is the length of the included list.
C39_IncludedOrTruncated ==
    /\ Len(bf.files) + bf.truncatedCount = Cardinality(PassedSoFar)
    /\ \E pos \in [DOMAIN bf.files -> PassedSoFar] :
            /\ \A k \in DOMAIN bf.files : bf.files[k] = Normalize(bf.sorted[pos[k]])
            /\ \A k, l \in DOMAIN bf.files : k < l => pos[k] < pos[l]
    /\ Len(bf.bundle) = Len(bf.files)
    /\ \A k \in DOMAIN bf.files : bf.bundle[k].path = bf.files[k]
    /\ bf.pc = "returned" => bf.fileCount = Len(bf.files)

\* a call returned with one file included and another counted as truncated
C39_Witness ==
    /\ bf.pc = "returned"
    /\ Len(bf.files) = 1
    /\ bf.truncatedCount = 1
    /\ Cardinality(PassedSoFar) = 2

\* some adapter of the call was started
BackendContacted == \E i \in DOMAIN ops : ops[i].sent > 0 \/ ops[i].lookups > 0

\* C40: in prism_bundle_query and prism_bundle_compare no backend is
\* contacted before bundleFiles has returned a manifest with at least one
\* file; when the manifest has no file, or bundleFiles failed, no queryLLM
\* call is made for any backend and the handler returns an error result.
C40_BundleBeforeBackends ==
    (IsBundle(tool) /\ phase # "idle") =>
        /\ bf.pc \in {"returned", "threw"}
        /\ (ops # <<>> \/ BackendContacted) =>
                bf.pc = "returned" /\ Len(bf.files) > 0
        /\ (bf.pc = "threw" \/ Len(bf.files) = 0) =>
                /\ ops = <<>>
                /\ phase = "done"
                /\ ret.kind = "result"
                /\ ret.isError

\* prism_bundle_compare returned an error for a project whose only file
\* was blocked as a secret, without a queryLLM call
C40_Witness ==
    /\ tool = "prism_bundle_compare"
    /\ phase = "done"
    /\ bf.pc = "returned"
    /\ bf.fileCount = 0
    /\ bf.blockedSecrets # <<>>
    /\ ops = <<>>
    /\ ret.isError

====
